---- MODULE Spec2Model ----
(***************************************************************************)
(* State-machine model of the smart_pub version-state engine:              *)
(*   - CacheService   (cache-service.ts, TTL cache persisted in the host   *)
(*                     application's globalState),                         *)
(*   - PubApiService  (pub-api-service.ts, registry client).               *)
(* Time is Date.now() in milliseconds.  Strings that the code only passes  *)
(* around are TLA+ strings; strings whose characters the code inspects     *)
(* (version strings) are turned into character sequences by Chars.         *)
(***************************************************************************)
EXTENDS Integers, Sequences, FiniteSets, TLC

VARIABLES
  now,              \* Date.now(), in milliseconds
  cache,            \* CacheService.cache : Map<string, CacheEntry>
  storage,          \* globalState['smartPubCache'] : set of <<key, entry>> pairs
  enableCache,      \* configuration smartPub.enableCache
  cacheExpiration,  \* configuration smartPub.cacheExpiration (seconds)
  last,             \* the most recent CacheService call and what it returned
  written,          \* history: the last value stored under each key by set
  calls,            \* PubApiService calls in progress, by call slot
  done,             \* the last step of a PubApiService call, if it returned or issued the call's request
  cfu,              \* PubApiService.checkForUpdates in progress
  rd,               \* one dependency entry being read and what its reader made of it
  file,             \* the content of the project's pubspec.yaml
  projects,         \* WorkspaceService.projects
  ops,              \* WorkspaceService operations in progress, by slot
  autoRunPubGet,    \* configuration smartPub.autoRunPubGet
  fileWatchers      \* WorkspaceService.fileWatchers, by its length

cacheVars == <<now, cache, storage, enableCache, cacheExpiration, last, written>>
apiVars == <<calls, done, cfu>>
extVars == <<rd, file, projects, ops, autoRunPubGet, fileWatchers>>
vars == <<now, cache, storage, enableCache, cacheExpiration, last, written, calls, done, cfu,
          rd, file, projects, ops, autoRunPubGet, fileWatchers>>

(***************************************************************************)
(* Bounds of the model.                                                    *)
(***************************************************************************)
\* The clock advances in steps of TickSeconds seconds, MaxTicks times at most.
TickSeconds == 1800
MaxTicks == 3

(***************************************************************************)
(* Program constants.                                                      *)
(***************************************************************************)
MsPerSecond == 1000
DefaultCacheExpiration == 3600
SearchTtl == 1800
DetailsTtl == 3600
\* A configured cacheExpiration other than the default.
ConfiguredExpirations == {DefaultCacheExpiration, 900}
\* The value of an omitted optional number parameter (undefined).
Undefined == -1
\* Slots for PubApiService calls that are in progress at the same time.
CallIds == {1, 2}

TickMs == TickSeconds * MsPerSecond
MaxNow == MaxTicks * TickMs

(***************************************************************************)
(* Values.  Every value is a record with a kind, so that null, a list and  *)
(* a package record can be compared with each other.                       *)
(***************************************************************************)
Null == [kind |-> "null"]
Bool(b) == [kind |-> "bool", value |-> b]
List(s) == [kind |-> "list", items |-> s]
\* PubPackageDetails: the fields the engine reads.  hasLatest = FALSE is a
\* response body without the 'latest' object.
Details(n, v) == [kind |-> "details", name |-> n, hasLatest |-> TRUE, version |-> v]
DetailsNoLatest(n) == [kind |-> "details", name |-> n, hasLatest |-> FALSE, version |-> ""]

\* Template literals of the cache keys.
PackageKey(packageName) == "package:" \o packageName
SearchKey(query, page) == "search:" \o query \o ":" \o ToString(page)

(***************************************************************************)
(* CacheService, as functions of the service state s = [cache, storage]    *)
(* and the clock reading t.                                                *)
(***************************************************************************)
\* Object.fromEntries(this.cache): the object's own entries.
ObjectFromEntries(c) == {<<k, c[k]>> : k \in DOMAIN c}

\* new Map(Object.entries(stored)).
MapOfEntries(stored) ==
  [k \in {p[1] : p \in stored} |-> (CHOOSE p \in stored : p[1] = k)[2]]

MapDelete(c, key) == [k \in DOMAIN c \ {key} |-> c[k]]
MapSet(c, key, entry) == [k \in DOMAIN c \cup {key} |-> IF k = key THEN entry ELSE c[k]]
EmptyMap == [k \in {} |-> Null]

\* saveCacheToStorage(): globalState.update('smartPubCache', Object.fromEntries(cache)).
SaveCacheToStorage(s) == [cache |-> s.cache, storage |-> ObjectFromEntries(s.cache)]

\* Mutant of IsExpired: the entry already counts as expired at its expiry instant.
IsExpiredAtExpiry(entry, t) == t >= entry.expiresAt

\* The test of get and cleanExpiredEntries.
IsExpired(entry, t) == t > entry.expiresAt

\* Mutant of GetOp: the eviction of an expired entry is not persisted.
GetOpNoSave(s, t, key) ==
  IF key \notin DOMAIN s.cache
    THEN [s |-> s, ret |-> Null, outcome |-> "absent"]
  ELSE IF IsExpired(s.cache[key], t)
    THEN [s |-> [s EXCEPT !.cache = MapDelete(s.cache, key)],
          ret |-> Null, outcome |-> "expired"]
  ELSE [s |-> s, ret |-> s.cache[key].data, outcome |-> "hit"]

\* get(key): [s |-> service state after, ret |-> returned value, outcome].
GetOp(s, t, key) ==
  IF key \notin DOMAIN s.cache
    THEN [s |-> s, ret |-> Null, outcome |-> "absent"]
  ELSE IF IsExpired(s.cache[key], t)
    THEN [s |-> SaveCacheToStorage([s EXCEPT !.cache = MapDelete(s.cache, key)]),
          ret |-> Null, outcome |-> "expired"]
  ELSE [s |-> s, ret |-> s.cache[key].data, outcome |-> "hit"]

\* has(key) = (get(key) !== null).
HasOp(s, t, key) ==
  LET g == GetOp(s, t, key)
  IN  [s |-> g.s, ret |-> (g.ret # Null), outcome |-> g.outcome]

\* expirationSeconds || defaultExpiration: undefined and 0 are falsy.
EffectiveExpiration(expirationSeconds, defaultExpiration) ==
  IF expirationSeconds = Undefined \/ expirationSeconds = 0
    THEN defaultExpiration
    ELSE expirationSeconds

\* The entry set builds.
NewEntry(t, data, expirationSeconds, defaultExpiration) ==
  [data |-> data,
   timestamp |-> t,
   expiresAt |-> t + EffectiveExpiration(expirationSeconds, defaultExpiration) * MsPerSecond]

\* Mutant of SetOp: the new entry is not persisted.
SetOpNoSave(s, t, key, data, expirationSeconds, defaultExpiration) ==
  [s EXCEPT !.cache = MapSet(s.cache, key,
                             NewEntry(t, data, expirationSeconds, defaultExpiration))]

\* set(key, data, expirationSeconds?).
SetOp(s, t, key, data, expirationSeconds, defaultExpiration) ==
  SaveCacheToStorage(
    [s EXCEPT !.cache = MapSet(s.cache, key,
                               NewEntry(t, data, expirationSeconds, defaultExpiration))])

\* delete(key).
DeleteOp(s, key) == SaveCacheToStorage([s EXCEPT !.cache = MapDelete(s.cache, key)])

\* clear().
ClearOp(s) == SaveCacheToStorage([s EXCEPT !.cache = EmptyMap])

\* cleanExpiredEntries(): drops every expired entry; saves only if one was dropped.
CleanExpiredEntries(s, t) ==
  LET kept == {k \in DOMAIN s.cache : ~IsExpired(s.cache[k], t)}
      swept == [s EXCEPT !.cache = [k \in kept |-> s.cache[k]]]
  IN  IF kept # DOMAIN s.cache THEN SaveCacheToStorage(swept) ELSE swept

\* Mutant of LoadCacheFromStorage: the snapshot is loaded but not swept.
LoadWithoutSweep(stored, t) == [cache |-> MapOfEntries(stored), storage |-> stored]

\* loadCacheFromStorage(): the constructor's work.
LoadCacheFromStorage(stored, t) ==
  CleanExpiredEntries([cache |-> MapOfEntries(stored), storage |-> stored], t)

Svc == [cache |-> cache, storage |-> storage]

(***************************************************************************)
(* Inputs of the cache operations.                                         *)
(***************************************************************************)
Names == {"pkg_a", "pkg_b"}
Queries == {"q"}
Pages == {1}
CacheKeys == {PackageKey(n) : n \in {"pkg_a"}} \cup {SearchKey(q, p) : q \in Queries, p \in Pages}
CacheValues == {Details("pkg_a", "1.2.0"), List(<<>>)}
TtlArgs == {Undefined, 0, 1}

NotWritten == [isSet |-> FALSE, data |-> Null, expiresAt |-> 0, reloaded |-> FALSE]
Call(op, key, ttl, ret, outcome) ==
  [op |-> op, key |-> key, ttl |-> ttl, ret |-> ret, outcome |-> outcome]

(***************************************************************************)
(* PubApiService call slots.                                               *)
(***************************************************************************)
IdleCall ==
  [kind |-> "none", pc |-> "idle", key |-> "", name |-> "", hits |-> <<>>,
   packages |-> <<>>, requests |-> 0, errors |-> 0]
NoneDone ==
  [kind |-> "none", key |-> "", ret |-> Null, outcome |-> "", requests |-> 0, errors |-> 0]
IdleUpdates ==
  [pc |-> "idle", declared |-> EmptyMap, tasks |-> EmptyMap, updates |-> <<>>]
ApiIdle ==
  /\ calls = [c \in CallIds |-> IdleCall]
  /\ done = NoneDone
  /\ cfu = IdleUpdates

\* No dependency entry is being read, no pubspec.yaml, no project, no operation.
NoEntry == [pc |-> "idle"]
MissingFile == [kind |-> "missing"]
WsIdle ==
  /\ rd = NoEntry
  /\ file = MissingFile
  /\ projects = <<>>
  /\ ops = <<>>
  /\ autoRunPubGet = TRUE
  /\ fileWatchers = 0

(***************************************************************************)
(* Actions on the cache.                                                   *)
(***************************************************************************)
Get(key) ==
  LET r == GetOp(Svc, now, key)
  IN  /\ cache' = r.s.cache
      /\ storage' = r.s.storage
      /\ last' = Call("get", key, Undefined, r.ret, r.outcome)
      /\ written' = IF r.outcome = "expired" THEN [written EXCEPT ![key] = NotWritten]
                    ELSE written
      /\ UNCHANGED <<now, enableCache, cacheExpiration, apiVars, extVars>>

Has(key) ==
  LET r == HasOp(Svc, now, key)
  IN  /\ cache' = r.s.cache
      /\ storage' = r.s.storage
      /\ last' = Call("has", key, Undefined, Bool(r.ret), r.outcome)
      /\ written' = IF r.outcome = "expired" THEN [written EXCEPT ![key] = NotWritten]
                    ELSE written
      /\ UNCHANGED <<now, enableCache, cacheExpiration, apiVars, extVars>>

Set(key, data, expirationSeconds) ==
  LET s == SetOp(Svc, now, key, data, expirationSeconds, cacheExpiration)
  IN  /\ cache' = s.cache
      /\ storage' = s.storage
      /\ last' = Call("set", key, expirationSeconds, Null, "stored")
      /\ written' = [written EXCEPT ![key] =
                       [isSet |-> TRUE, data |-> data,
                        expiresAt |-> s.cache[key].expiresAt, reloaded |-> FALSE]]
      /\ UNCHANGED <<now, enableCache, cacheExpiration, apiVars, extVars>>

Delete(key) ==
  LET s == DeleteOp(Svc, key)
  IN  /\ cache' = s.cache
      /\ storage' = s.storage
      /\ last' = Call("delete", key, Undefined, Null, "deleted")
      /\ written' = [written EXCEPT ![key] = NotWritten]
      /\ UNCHANGED <<now, enableCache, cacheExpiration, apiVars, extVars>>

Clear ==
  LET s == ClearOp(Svc)
  IN  /\ cache' = s.cache
      /\ storage' = s.storage
      /\ last' = Call("clear", "", Undefined, Null, "cleared")
      /\ written' = [k \in DOMAIN written |-> NotWritten]
      /\ UNCHANGED <<now, enableCache, cacheExpiration, apiVars, extVars>>

\* The extension is activated again: a new CacheService is constructed from the
\* persisted snapshot; the previous instance's map is gone.
Construct ==
  LET s == LoadCacheFromStorage(storage, now)
  IN  /\ cache' = s.cache
      /\ storage' = s.storage
      /\ last' = Call("construct", "", Undefined, Null,
                      IF DOMAIN s.cache # {p[1] : p \in storage} THEN "swept" ELSE "loaded")
      /\ written' = [k \in DOMAIN written |->
                       IF written[k].isSet THEN [written[k] EXCEPT !.reloaded = TRUE]
                       ELSE written[k]]
      /\ UNCHANGED <<now, enableCache, cacheExpiration, apiVars, extVars>>

\* Time passes.
Advance ==
  /\ now + TickMs <= MaxNow
  /\ now' = now + TickMs
  /\ last' = Call("advance", "", Undefined, Null, "")
  /\ UNCHANGED <<cache, storage, enableCache, cacheExpiration, written, apiVars, extVars>>

CacheInit ==
  /\ ApiIdle
  /\ WsIdle
  /\ now = 0
  /\ cache = EmptyMap
  /\ storage = {}
  /\ enableCache = TRUE
  /\ cacheExpiration \in ConfiguredExpirations
  /\ last = Call("construct", "", Undefined, Null, "loaded")
  /\ written = [k \in CacheKeys |-> NotWritten]

CacheNext ==
  \/ \E key \in CacheKeys : Get(key)
  \/ \E key \in CacheKeys : Has(key)
  \/ \E key \in CacheKeys, data \in CacheValues, ttl \in TtlArgs : Set(key, data, ttl)
  \/ \E key \in CacheKeys : Delete(key)
  \/ Clear
  \/ Construct
  \/ Advance

SpecCache == CacheInit /\ [][CacheNext]_vars

(***************************************************************************)
(* Properties of the TTL cache, checked under SpecCache.                   *)
(***************************************************************************)
\* C1: get(key) returns the stored value exactly while now <= expiresAt of the
\* entry; otherwise it returns null, the entry is gone from the cache after the
\* call, and has(key) called next returns false.
C1_GetNeverReturnsExpired ==
  [][\A key \in CacheKeys :
       Get(key) =>
         IF key \in DOMAIN cache /\ now <= cache[key].expiresAt
           THEN last'.ret = cache[key].data
           ELSE /\ last'.ret = Null
                /\ key \notin DOMAIN cache'
                /\ ~HasOp([cache |-> cache', storage |-> storage'], now', key).ret
    ]_vars

\* C1 witness: a get found its entry expired and evicted it.
C1_Witness ==
  /\ last.op = "get"
  /\ last.outcome = "expired"
  /\ last.ret = Null
  /\ last.key \notin DOMAIN cache

\* C2 (as claimed): the entry stored by set(key, value, ttlSeconds) expires at
\* now + ttlSeconds for every supplied ttlSeconds, 0 included, and at
\* now + the configured default only when ttlSeconds is omitted.
C2_SetUsesSuppliedTtl ==
  last.op = "set" =>
    /\ last.key \in DOMAIN cache
    /\ cache[last.key].expiresAt =
         now + (IF last.ttl = Undefined THEN cacheExpiration ELSE last.ttl) * MsPerSecond

\* C3: the snapshot persisted under the storage key holds exactly the entries of
\* the in-memory map, after every operation.
C3_SnapshotEqualsCache == storage = ObjectFromEntries(cache)

\* C3 witness: a get evicted an expired entry while another entry stayed stored.
C3_Witness ==
  /\ last.op = "get"
  /\ last.outcome = "expired"
  /\ cache # EmptyMap
  /\ storage # {}

\* C4: right after construction from a snapshot the map holds no expired entry.
C4_NoExpiredEntryAfterConstruction ==
  last.op = "construct" => \A k \in DOMAIN cache : now <= cache[k].expiresAt

\* C4 witness: a construction that found expired entries in the snapshot, next
\* to one that is still valid.
C4_Witness ==
  /\ last.op = "construct"
  /\ last.outcome = "swept"
  /\ cache # EmptyMap

\* C5: a get(k) made before the entry written by the last set(k, v) expires
\* returns v, whether or not the service was reconstructed from the snapshot in
\* between.
C5_RoundTrip ==
  (/\ last.op = "get"
   /\ written[last.key].isSet
   /\ now <= written[last.key].expiresAt)
    => last.ret = written[last.key].data

\* C5 witness: a get returned the value set before a reconstruction.
C5_Witness ==
  /\ last.op = "get"
  /\ written[last.key].isSet
  /\ written[last.key].reloaded
  /\ last.outcome = "hit"
  /\ last.ret = written[last.key].data

(***************************************************************************)
(* PubApiService: searchPackages and getPackageDetails.                    *)
(* A call runs in steps that end where the code awaits an HTTP response.   *)
(* Date.now() is read once by has and once more by get; `skip` is the time *)
(* that passes between the two reads.                                      *)
(***************************************************************************)
\* PubPackage built by convertSearchResultsToPackages: the fields that identify it.
Package(n, v) == [name |-> n, version |-> v]

\* Mutant of CachedLookup: the cache is consulted whatever enableCache says.
CachedLookupAlways(s, t, skip, enabled, key) ==
  LET h == HasOp(s, t, key)
  IN  IF h.ret
        THEN LET g == GetOp(h.s, t + skip, key)
             IN  [s |-> g.s, hit |-> TRUE, ret |-> g.ret]
        ELSE [s |-> h.s, hit |-> FALSE, ret |-> Null]

\* `isEnabled() && has(cacheKey)`, then `get(cacheKey)` when has answered true.
\* [s |-> service state after, hit |-> has answered true, ret |-> what get returned]
CachedLookup(s, t, skip, enabled, key) ==
  IF ~enabled
    THEN [s |-> s, hit |-> FALSE, ret |-> Null]
    ELSE LET h == HasOp(s, t, key)
         IN  IF h.ret
               THEN LET g == GetOp(h.s, t + skip, key)
                    IN  [s |-> g.s, hit |-> TRUE, ret |-> g.ret]
               ELSE [s |-> h.s, hit |-> FALSE, ret |-> Null]

\* Mutant of StoreIfEnabled: the entry gets the configured default TTL.
StoreWithDefaultTtl(s, t, enabled, key, data, ttl, defaultExpiration) ==
  IF enabled THEN SetOp(s, t, key, data, Undefined, defaultExpiration) ELSE s

\* `if (isEnabled()) set(cacheKey, data, ttl)`.
StoreIfEnabled(s, t, enabled, key, data, ttl, defaultExpiration) ==
  IF enabled THEN SetOp(s, t, key, data, ttl, defaultExpiration) ELSE s

\* `get<PubPackage[]>(cacheKey) || []`.
OrEmptyList(v) == IF v = Null THEN List(<<>>) ELSE v

\* Responses of the registry.
HitLists == {<<>>, <<"pkg_a">>, <<"pkg_a", "pkg_b">>}
SearchResponses ==
  {[ok |-> FALSE, wellFormed |-> FALSE, hits |-> <<>>],
   [ok |-> TRUE, wellFormed |-> FALSE, hits |-> <<>>]}
    \cup {[ok |-> TRUE, wellFormed |-> TRUE, hits |-> h] : h \in HitLists}
DetailsResponses(n, versions, withoutLatest) ==
  {[ok |-> FALSE, data |-> Null]}
    \cup {[ok |-> TRUE, data |-> DetailsNoLatest(n)] : x \in {y \in {1} : withoutLatest}}
    \cup {[ok |-> TRUE, data |-> Details(n, v)] : v \in versions}
ApiVersions == {"1.2.0"}

\* A new call takes the lowest free slot.
FreeSlot(c) == calls[c].pc = "idle" /\ \A d \in CallIds : d < c => calls[d].pc # "idle"

\* A call found nothing to return in the cache (outcome "miss") or did not look
\* (outcome "disabled"), and issued its request.
Requested(kind, key) ==
  [kind |-> kind, key |-> key, ret |-> Null,
   outcome |-> IF enableCache THEN "miss" ELSE "disabled", requests |-> 1, errors |-> 0]

\* What a call returned: its value, how it got it (cached / fetched / failed:
\* the request failed / caught: an exception was caught), the HTTP requests it
\* issued and the error messages it showed.
Returned(c, ret, outcome) ==
  [kind |-> calls[c].kind, key |-> calls[c].key, ret |-> ret, outcome |-> outcome,
   requests |-> calls[c].requests, errors |-> calls[c].errors]

SetSvc(s) == cache' = s.cache /\ storage' = s.storage

\* searchPackages(query, page) up to its first await.
StartSearch(c, query, page, skip) ==
  LET key == SearchKey(query, page)
      l == CachedLookup(Svc, now, skip, enableCache, key)
      call == [IdleCall EXCEPT !.kind = "search", !.key = key]
  IN  /\ FreeSlot(c)
      /\ now + skip <= MaxNow
      /\ skip = 0 \/ l.hit
      /\ SetSvc(l.s)
      /\ IF l.hit
           THEN /\ now' = now + skip
                /\ calls' = calls
                /\ done' = [kind |-> "search", key |-> key,
                            ret |-> OrEmptyList(l.ret), outcome |-> "cached",
                            requests |-> 0, errors |-> 0]
           ELSE /\ now' = now
                /\ calls' = [calls EXCEPT ![c] =
                               [call EXCEPT !.pc = "awaitSearch", !.requests = 1]]
                /\ done' = Requested("search", key)
      /\ UNCHANGED <<enableCache, cacheExpiration, last, written, cfu, extVars>>

\* Mutant of SearchCaught: the failed request is issued again.
SearchRetried(c, outcome) ==
  /\ calls' = [calls EXCEPT ![c].requests = @ + 1]
  /\ done' = NoneDone

\* The catch block of searchPackages: log, show the error, return [].
SearchCaught(c, outcome) ==
  /\ calls' = [calls EXCEPT ![c] = IdleCall]
  /\ done' = [Returned(c, List(<<>>), outcome) EXCEPT !.errors = @ + 1]

\* The search request completes: axios.get resolves or rejects.
SearchResponse(c, resp) ==
  /\ calls[c].kind = "search"
  /\ calls[c].pc = "awaitSearch"
  /\ IF resp.ok /\ resp.wellFormed
       THEN /\ calls' = [calls EXCEPT ![c].pc = "convert", ![c].hits = resp.hits]
            /\ done' = NoneDone
       ELSE SearchCaught(c, IF resp.ok THEN "caught" ELSE "failed")
  /\ UNCHANGED <<now, cache, storage, enableCache, cacheExpiration, last, written, cfu, extVars>>

\* The loop body of convertSearchResultsToPackages once packageDetails is known.
Converted(c, packageDetails) ==
  IF packageDetails = Null
    THEN /\ calls' = [calls EXCEPT ![c].pc = "convert", ![c].hits = Tail(@)]
         /\ done' = NoneDone
  ELSE IF ~packageDetails.hasLatest
    THEN SearchCaught(c, "caught")
  ELSE /\ calls' = [calls EXCEPT
                      ![c].pc = "convert",
                      ![c].hits = Tail(@),
                      ![c].packages =
                         Append(@, Package(Head(calls[c].hits), packageDetails.version))]
       /\ done' = NoneDone

\* convertSearchResultsToPackages: the next search hit, or the end of the loop,
\* where searchPackages caches and returns the list.
ConvertStep(c, skip) ==
  /\ calls[c].kind = "search"
  /\ calls[c].pc = "convert"
  /\ now + skip <= MaxNow
  /\ IF calls[c].hits = <<>>
       THEN /\ skip = 0
            /\ SetSvc(StoreIfEnabled(Svc, now, enableCache, calls[c].key,
                                     List(calls[c].packages), SearchTtl, cacheExpiration))
            /\ calls' = [calls EXCEPT ![c] = IdleCall]
            /\ done' = Returned(c, List(calls[c].packages), "fetched")
            /\ now' = now
       ELSE LET name == Head(calls[c].hits)
                l == CachedLookup(Svc, now, skip, enableCache, PackageKey(name))
            IN  /\ skip = 0 \/ l.hit
                /\ SetSvc(l.s)
                /\ IF l.hit
                     THEN now' = now + skip /\ Converted(c, l.ret)
                     ELSE /\ now' = now
                          /\ calls' = [calls EXCEPT ![c].pc = "awaitDetails",
                                                    ![c].name = name,
                                                    ![c].requests = @ + 1]
                          /\ done' = NoneDone
  /\ UNCHANGED <<enableCache, cacheExpiration, last, written, cfu, extVars>>

\* getPackageDetails(packageName) up to its first await.
StartDetails(c, packageName, skip) ==
  LET key == PackageKey(packageName)
      l == CachedLookup(Svc, now, skip, enableCache, key)
      call == [IdleCall EXCEPT !.kind = "details", !.key = key, !.name = packageName]
  IN  /\ FreeSlot(c)
      /\ now + skip <= MaxNow
      /\ skip = 0 \/ l.hit
      /\ SetSvc(l.s)
      /\ IF l.hit
           THEN /\ now' = now + skip
                /\ calls' = calls
                /\ done' = [kind |-> "details", key |-> key,
                            ret |-> l.ret, outcome |-> "cached",
                            requests |-> 0, errors |-> 0]
           ELSE /\ now' = now
                /\ calls' = [calls EXCEPT ![c] =
                               [call EXCEPT !.pc = "awaitDetails", !.requests = 1]]
                /\ done' = Requested("details", key)
      /\ UNCHANGED <<enableCache, cacheExpiration, last, written, cfu, extVars>>

\* The rest of getPackageDetails once its request completes: the value it returns
\* and the service state it leaves.
DetailsCompleted(s, t, enabled, packageName, resp, defaultExpiration) ==
  IF resp.ok
    THEN [s |-> StoreIfEnabled(s, t, enabled, PackageKey(packageName), resp.data,
                               DetailsTtl, defaultExpiration),
          ret |-> resp.data]
    ELSE [s |-> s, ret |-> Null]

\* The request of a getPackageDetails call completes.
DetailsResponse(c, resp) ==
  LET r == DetailsCompleted(Svc, now, enableCache, calls[c].name, resp, cacheExpiration)
  IN  /\ calls[c].pc = "awaitDetails"
      /\ SetSvc(r.s)
      /\ IF calls[c].kind = "search"
           THEN Converted(c, r.ret)
           ELSE /\ calls' = [calls EXCEPT ![c] = IdleCall]
                /\ done' = Returned(c, r.ret, IF resp.ok THEN "fetched" ELSE "failed")
      /\ UNCHANGED <<now, enableCache, cacheExpiration, last, written, cfu, extVars>>

\* Time passes while calls are in progress.
Tick ==
  /\ now + TickMs <= MaxNow
  /\ now' = now + TickMs
  /\ done' = NoneDone
  /\ UNCHANGED <<cache, storage, enableCache, cacheExpiration, last, written, calls, cfu, extVars>>

\* The user changes smartPub.enableCache.
ToggleCache ==
  /\ enableCache' = ~enableCache
  /\ done' = NoneDone
  /\ UNCHANGED <<now, cache, storage, cacheExpiration, last, written, calls, cfu, extVars>>

\* The smartPub.clearCache command.
ClearCacheCommand ==
  /\ SetSvc(ClearOp(Svc))
  /\ done' = NoneDone
  /\ UNCHANGED <<now, enableCache, cacheExpiration, last, written, calls, cfu, extVars>>

Skips == {0, TickMs}
\* One searchPackages call at a time, next to getPackageDetails calls.
SearchSlots == {1}

ApiInit ==
  /\ ApiIdle
  /\ WsIdle
  /\ now = 0
  /\ cache = EmptyMap
  /\ storage = {}
  /\ enableCache \in BOOLEAN
  \* a configured value other than the TTLs the client passes to set
  /\ cacheExpiration \in ConfiguredExpirations \ {DefaultCacheExpiration}
  /\ last = Call("construct", "", Undefined, Null, "loaded")
  /\ written = [k \in CacheKeys |-> NotWritten]

\* The registry's responses here carry one latest version; bodies without a
\* 'latest' object are among the responses of SpecUpdates.
ApiNext ==
  \/ \E c \in SearchSlots, q \in Queries, p \in Pages, skip \in Skips :
       StartSearch(c, q, p, skip)
  \/ \E c \in CallIds, resp \in SearchResponses : SearchResponse(c, resp)
  \/ \E c \in CallIds, skip \in Skips : ConvertStep(c, skip)
  \/ \E c \in CallIds, n \in Names, skip \in Skips : StartDetails(c, n, skip)
  \/ \E c \in CallIds : \E resp \in DetailsResponses(calls[c].name, ApiVersions, FALSE) :
       DetailsResponse(c, resp)
  \/ Tick
  \/ ToggleCache
  \/ ClearCacheCommand

SpecApi == ApiInit /\ [][ApiNext]_vars

(***************************************************************************)
(* Properties of the registry client, checked under SpecApi.               *)
(***************************************************************************)
\* A call that finds the cache enabled and an entry for its key, and whose cache
\* lookups are over no later than ttl seconds after the entry was stored.
WithinTtl(key, ttl) ==
  /\ enableCache
  /\ key \in DOMAIN cache
  /\ now' <= cache[key].timestamp + ttl * MsPerSecond

AnsweredFromCache(kind, key) ==
  /\ done' = [kind |-> kind, key |-> key, ret |-> cache[key].data, outcome |-> "cached",
              requests |-> 0, errors |-> 0]
  /\ calls' = calls

C7_FailSoftNoRetry ==
  [][/\ \A c \in CallIds, resp \in SearchResponses :
          (~resp.ok /\ SearchResponse(c, resp))
            => /\ done' = [kind |-> "search", key |-> calls[c].key, ret |-> List(<<>>),
                           outcome |-> "failed", requests |-> 1, errors |-> 1]
               /\ calls'[c] = IdleCall
               /\ cache' = cache
               /\ storage' = storage
     /\ \A c \in CallIds :
          (/\ calls[c].kind = "details"
           /\ DetailsResponse(c, [ok |-> FALSE, data |-> Null]))
            => /\ done' = [kind |-> "details", key |-> calls[c].key, ret |-> Null,
                           outcome |-> "failed", requests |-> 1, errors |-> 0]
               /\ calls'[c] = IdleCall
               /\ cache' = cache
               /\ storage' = storage
    ]_vars

\* C7 witness: a search whose request failed returned [] and left no entry for
\* its key although the cache is enabled.
C7_Witness ==
  /\ enableCache
  /\ done.kind = "search"
  /\ done.outcome = "failed"
  /\ done.ret = List(<<>>)
  /\ done.key \notin DOMAIN cache

\* C8: while enableCache is false no step of searchPackages or getPackageDetails
\* changes the cache or its snapshot (only the clearCache command does), and
\* every lookup issues its HTTP request.
C8_DisabledCacheUntouched ==
  [][~enableCache
       => /\ (cache' = cache /\ storage' = storage) \/ ClearCacheCommand
          /\ \A c \in CallIds, q \in Queries, p \in Pages, skip \in Skips :
               StartSearch(c, q, p, skip)
                 => calls'[c].pc = "awaitSearch" /\ calls'[c].requests = 1
          /\ \A c \in CallIds, n \in Names, skip \in Skips :
               StartDetails(c, n, skip)
                 => calls'[c].pc = "awaitDetails" /\ calls'[c].requests = 1
          /\ \A c \in CallIds, skip \in Skips :
               (ConvertStep(c, skip) /\ calls[c].hits # <<>>)
                 => /\ calls'[c].pc = "awaitDetails"
                    /\ calls'[c].requests = calls[c].requests + 1
    ]_vars

\* C8 witness: with the cache disabled, a getPackageDetails call has just issued
\* its request although the cache holds an unexpired entry for its key.
C8_Witness ==
  /\ ~enableCache
  /\ done.kind = "details"
  /\ done.outcome = "disabled"
  /\ done.requests = 1
  /\ done.key \in DOMAIN cache
  /\ now <= cache[done.key].expiresAt

(***************************************************************************)
(* isVersionOutdated (pub-api-service.ts and, with the same body,          *)
(* workspace-service.ts).  Chars gives the characters of the version       *)
(* strings the model uses.                                                 *)
(***************************************************************************)
Chars(s) ==
  CASE s = "" -> <<>>
    [] s = "1.2.0" -> <<"1", ".", "2", ".", "0">>
    [] s = "1.0.0" -> <<"1", ".", "0", ".", "0">>
    [] s = "^1.0.0" -> <<"^", "1", ".", "0", ".", "0">>
    [] s = "^1.2.0" -> <<"^", "1", ".", "2", ".", "0">>
    [] s = "^2.0.0" -> <<"^", "2", ".", "0", ".", "0">>
    [] s = "1.0" -> <<"1", ".", "0">>
    [] s = "1.2.3" -> <<"1", ".", "2", ".", "3">>
    [] s = "1.3.0" -> <<"1", ".", "3", ".", "0">>
    [] s = "2.0.0" -> <<"2", ".", "0", ".", "0">>
    [] s = "1.9.9" -> <<"1", ".", "9", ".", "9">>
    [] s = "any" -> <<"a", "n", "y">>
    [] s = ">=1.0.0 <2.0.0" -> <<">", "=", "1", ".", "0", ".", "0", " ", "<", "2", ".", "0", ".", "0">>
    [] s = "1.10.0" -> <<"1", ".", "1", "0", ".", "0">>
    [] s = "^1.9.0" -> <<"^", "1", ".", "9", ".", "0">>
    [] s = "1.0.1" -> <<"1", ".", "0", ".", "1">>
    [] s = "1.9.0" -> <<"1", ".", "9", ".", "0">>
    [] s = "~1.0.0" -> <<"~", "1", ".", "0", ".", "0">>
    [] s = "1..2" -> <<"1", ".", ".", "2">>
    [] s = " " -> <<" ">>
    [] s = "^" -> <<"^">>
    [] s = "^>=1.0.0 <2.0.0" ->
         <<"^", ">", "=", "1", ".", "0", ".", "0", " ", "<", "2", ".", "0", ".", "0">>
    [] s = "[object Object]" ->
         <<"[", "o", "b", "j", "e", "c", "t", " ", "O", "b", "j", "e", "c", "t", "]">>
    [] s = "dependencies:" ->
         <<"d", "e", "p", "e", "n", "d", "e", "n", "c", "i", "e", "s", ":">>
    [] s = "dev_dependencies:" ->
         <<"d", "e", "v", "_", "d", "e", "p", "e", "n", "d", "e", "n", "c", "i", "e", "s", ":">>
    [] s = "dev_dependencies: # tools" ->
         <<"d", "e", "v", "_", "d", "e", "p", "e", "n", "d", "e", "n", "c", "i", "e", "s", ":", " ", "#", " ", "t", "o", "o", "l", "s">>
    [] s = "  foo: ^1.0.0" ->
         <<" ", " ", "f", "o", "o", ":", " ", "^", "1", ".", "0", ".", "0">>
    [] s = "  bar: ^2.0.0" ->
         <<" ", " ", "b", "a", "r", ":", " ", "^", "2", ".", "0", ".", "0">>
    [] s = "version: 1.0.0" ->
         <<"v", "e", "r", "s", "i", "o", "n", ":", " ", "1", ".", "0", ".", "0">>
    [] s = "foo:" ->
         <<"f", "o", "o", ":">>
    [] s = "bar:" ->
         <<"b", "a", "r", ":">>
    [] s = "version:" ->
         <<"v", "e", "r", "s", "i", "o", "n", ":">>

Digits == {"0", "1", "2", "3", "4", "5", "6", "7", "8", "9"}
DigitValue(ch) ==
  CASE ch = "0" -> 0 [] ch = "1" -> 1 [] ch = "2" -> 2 [] ch = "3" -> 3 [] ch = "4" -> 4
    [] ch = "5" -> 5 [] ch = "6" -> 6 [] ch = "7" -> 7 [] ch = "8" -> 8 [] ch = "9" -> 9

\* version.replace(/[^0-9.]/g, '')
IsNumericChar(ch) == ch \in Digits \cup {"."}
StripNonNumeric(cs) == SelectSeq(cs, IsNumericChar)

\* clean.split('.'): the pieces between the dots; "" splits into one empty piece.
RECURSIVE SplitAtDots(_, _)
SplitAtDots(cs, piece) ==
  IF cs = <<>> THEN <<piece>>
  ELSE IF Head(cs) = "." THEN <<piece>> \o SplitAtDots(Tail(cs), <<>>)
  ELSE SplitAtDots(Tail(cs), Append(piece, Head(cs)))

\* Number(piece) for a string of digits; Number("") is 0.
RECURSIVE ToNumber(_)
ToNumber(piece) ==
  IF piece = <<>> THEN 0
  ELSE ToNumber(SubSeq(piece, 1, Len(piece) - 1)) * 10 + DigitValue(piece[Len(piece)])

VersionParts(clean) ==
  LET pieces == SplitAtDots(clean, <<>>)
  IN  [i \in 1 .. Len(pieces) |-> ToNumber(pieces[i])]

\* parts[i] || 0
PartOrZero(parts, i) == IF i <= Len(parts) THEN parts[i] ELSE 0

Max(x, y) == IF x >= y THEN x ELSE y

\* Mutant of LatestIsGreaterFrom: a greater component of latest at any position
\* counts, whatever the components before it.
LatestIsGreaterAnywhere(currentParts, latestParts, i) ==
  \E j \in i .. Max(Len(currentParts), Len(latestParts)) :
    PartOrZero(latestParts, j) > PartOrZero(currentParts, j)

\* The comparison loop, from position i on.
RECURSIVE LatestIsGreaterFrom(_, _, _)
LatestIsGreaterFrom(currentParts, latestParts, i) ==
  IF i > Max(Len(currentParts), Len(latestParts)) THEN FALSE
  ELSE IF PartOrZero(latestParts, i) > PartOrZero(currentParts, i) THEN TRUE
  ELSE IF PartOrZero(currentParts, i) > PartOrZero(latestParts, i) THEN FALSE
  ELSE LatestIsGreaterFrom(currentParts, latestParts, i + 1)

\* undefined or null where a string is expected.  TLA+ strings have no null, so
\* a reserved string stands for it; `!version` holds of it and of "".
AbsentString == "<absent>"
IsFalsy(version) == version \in {"", AbsentString}

\* Mutant of IsVersionOutdated: a version stripped to nothing is compared as 0.
IsVersionOutdatedUnguarded(currentVersion, latestVersion) ==
  IF IsFalsy(currentVersion) \/ IsFalsy(latestVersion) THEN FALSE
  ELSE LatestIsGreaterFrom(VersionParts(StripNonNumeric(Chars(currentVersion))),
                           VersionParts(StripNonNumeric(Chars(latestVersion))), 1)

IsVersionOutdated(currentVersion, latestVersion) ==
  LET cleanCurrent == StripNonNumeric(Chars(currentVersion))
      cleanLatest == StripNonNumeric(Chars(latestVersion))
  IN  IF IsFalsy(currentVersion) \/ IsFalsy(latestVersion) THEN FALSE
      ELSE IF cleanCurrent = <<>> \/ cleanLatest = <<>> THEN FALSE
      ELSE LatestIsGreaterFrom(VersionParts(cleanCurrent), VersionParts(cleanLatest), 1)

(***************************************************************************)
(* PubApiService.getLatestVersion and checkForUpdates.                     *)
(***************************************************************************)
Str(v) == [kind |-> "string", value |-> v]

\* details?.latest?.version || null
LatestVersionOf(details) ==
  IF details = Null THEN Null
  ELSE IF ~details.hasLatest THEN Null
  ELSE IF details.version = "" THEN Null
  ELSE Str(details.version)

\* Object.keys(dependencies), in the order the names were declared.
KeyOrder == <<"pkg_a", "pkg_b">>
IsDeclared(declared, n) == n \in DOMAIN declared
KeysOf(declared) == SelectSeq(KeyOrder, LAMBDA n : n \in DOMAIN declared)

NotStarted == [pc |-> "notStarted", latest |-> Null]

\* Mutant of FanOut: only the first lookup is started before the call waits.
FanOutFirstOnly(keys, s, t, skipAt, enabled) ==
  IF keys = <<>> THEN [s |-> s, t |-> t, tasks |-> EmptyMap]
  ELSE LET n == Head(keys)
           l == CachedLookup(s, t, IF skipAt = n THEN TickMs ELSE 0, enabled, PackageKey(n))
       IN  [s |-> l.s,
            t |-> IF l.hit /\ skipAt = n THEN t + TickMs ELSE t,
            tasks |-> [m \in {keys[i] : i \in 1 .. Len(keys)} |->
                         IF m # n THEN NotStarted
                         ELSE IF l.hit THEN [pc |-> "resolved", latest |-> LatestVersionOf(l.ret)]
                         ELSE [pc |-> "awaiting", latest |-> Null]]]

\* Object.keys(dependencies).map(async ...): every callback runs up to its first
\* pending await, in key order.  A lookup answered from the cache is resolved, one
\* that missed has its request in flight.  skipAt names the lookup during which
\* the clock advances between has and get.
RECURSIVE FanOut(_, _, _, _, _)
FanOut(keys, s, t, skipAt, enabled) ==
  IF keys = <<>> THEN [s |-> s, t |-> t, tasks |-> EmptyMap]
  ELSE LET n == Head(keys)
           l == CachedLookup(s, t, IF skipAt = n THEN TickMs ELSE 0, enabled, PackageKey(n))
           t2 == IF l.hit /\ skipAt = n THEN t + TickMs ELSE t
           rest == FanOut(Tail(keys), l.s, t2, skipAt, enabled)
           task == IF l.hit THEN [pc |-> "resolved", latest |-> LatestVersionOf(l.ret)]
                   ELSE [pc |-> "awaiting", latest |-> Null]
       IN  [s |-> rest.s, t |-> rest.t,
            tasks |-> [m \in DOMAIN rest.tasks \cup {n} |->
                         IF m = n THEN task ELSE rest.tasks[m]]]

\* Mutant of Recorded: every version obtained is reported, outdated or not.
RecordedAlways(updates, packageName, declaredVersion, latestVersion) ==
  IF latestVersion # Null
    THEN Append(updates, <<packageName, latestVersion.value>>)
    ELSE updates

\* if (latestVersion && isVersionOutdated(...)) updates[packageName] = latestVersion
Recorded(updates, packageName, declaredVersion, latestVersion) ==
  IF latestVersion # Null /\ IsVersionOutdated(declaredVersion, latestVersion.value)
    THEN Append(updates, <<packageName, latestVersion.value>>)
    ELSE updates

\* The continuations of the lookups that were answered from the cache, in key order.
RECURSIVE RecordResolved(_, _, _, _)
RecordResolved(keys, declared, tasks, updates) ==
  IF keys = <<>> THEN updates
  ELSE RecordResolved(Tail(keys), declared, tasks,
         IF tasks[Head(keys)].pc = "resolved"
           THEN Recorded(updates, Head(keys), declared[Head(keys)], tasks[Head(keys)].latest)
           ELSE updates)

Settled(tasks) ==
  [n \in DOMAIN tasks |-> IF tasks[n].pc = "resolved" THEN [tasks[n] EXCEPT !.pc = "done"]
                          ELSE tasks[n]]

\* `await Promise.all(promises); return updates`
AllDone(tasks) == \A n \in DOMAIN tasks : tasks[n].pc = "done"

\* The record returned, as a map from names to versions.
UpdatesMap(updates) ==
  [n \in {updates[i][1] : i \in 1 .. Len(updates)} |->
     updates[CHOOSE i \in 1 .. Len(updates) :
               /\ updates[i][1] = n
               /\ \A j \in 1 .. Len(updates) : updates[j][1] = n => j <= i][2]]

\* checkForUpdates(dependencies) up to `await Promise.all`.
CheckForUpdates(declared, skipAt) ==
  LET f == FanOut(KeysOf(declared), Svc, now, skipAt, enableCache)
      tasks == Settled(f.tasks)
  IN  /\ cfu.pc \in {"idle", "returned"}
      /\ f.t <= MaxNow
      /\ skipAt = "" \/ (IsDeclared(declared, skipAt) /\ f.t # now)
      /\ SetSvc(f.s)
      /\ now' = f.t
      /\ cfu' = [pc |-> IF AllDone(tasks) THEN "returned" ELSE "waiting",
                 declared |-> declared,
                 tasks |-> tasks,
                 updates |-> RecordResolved(KeysOf(declared), declared, f.tasks, <<>>)]
      /\ UNCHANGED <<enableCache, cacheExpiration, last, written, calls, done, extVars>>

\* The request of one lookup completes; the call returns when it was the last.
LookupResponse(n, resp) ==
  LET r == DetailsCompleted(Svc, now, enableCache, n, resp, cacheExpiration)
      latest == LatestVersionOf(r.ret)
      tasks == [cfu.tasks EXCEPT ![n] = [pc |-> "done", latest |-> latest]]
  IN  /\ cfu.pc = "waiting"
      /\ n \in DOMAIN cfu.tasks
      /\ cfu.tasks[n].pc = "awaiting"
      /\ SetSvc(r.s)
      /\ cfu' = [cfu EXCEPT
                   !.pc = IF AllDone(tasks) THEN "returned" ELSE "waiting",
                   !.tasks = tasks,
                   !.updates = Recorded(@, n, cfu.declared[n], latest)]
      /\ UNCHANGED <<now, enableCache, cacheExpiration, last, written, calls, done, extVars>>

DeclaredVersions == {"^1.0.0", "^1.2.0"}
UpdateVersions == {"1.2.0", "1.0.0"}
Dependencies == UNION {[ns -> DeclaredVersions] : ns \in SUBSET Names}

UpdatesInit ==
  /\ ApiIdle
  /\ WsIdle
  /\ now = 0
  /\ cache = EmptyMap
  /\ storage = {}
  /\ enableCache \in BOOLEAN
  /\ cacheExpiration = DefaultCacheExpiration
  /\ last = Call("construct", "", Undefined, Null, "loaded")
  /\ written = [k \in CacheKeys |-> NotWritten]

UpdatesNext ==
  \/ \E declared \in Dependencies, skipAt \in Names \cup {""} : CheckForUpdates(declared, skipAt)
  \/ \E n \in Names : \E resp \in DetailsResponses(n, UpdateVersions, TRUE) : LookupResponse(n, resp)
  \/ Tick
  \/ ToggleCache

SpecUpdates == UpdatesInit /\ [][UpdatesNext]_vars

(***************************************************************************)
(* Properties of checkForUpdates, checked under SpecUpdates.               *)
(***************************************************************************)
\* The names for which a latest version was obtained that the declared
\* constraint is outdated against, each with that version.
OutdatedNames(declared, tasks) ==
  {n \in DOMAIN declared :
     /\ tasks[n].latest # Null
     /\ IsVersionOutdated(declared[n], tasks[n].latest.value)}
ExpectedUpdates(declared, tasks) ==
  [n \in OutdatedNames(declared, tasks) |-> tasks[n].latest.value]

\* C9: the map checkForUpdates returns has exactly the names whose lookup gave a
\* latest version L with isOutdated(declared[n], L), each mapped to L; for
\* {pkg_a: ^1.0.0} and latest 1.2.0 it is {pkg_a: 1.2.0}.
C9_UpdatesAreExactlyTheOutdated ==
  cfu.pc = "returned" =>
    /\ UpdatesMap(cfu.updates) = ExpectedUpdates(cfu.declared, cfu.tasks)
    /\ (/\ cfu.declared = [n \in {"pkg_a"} |-> "^1.0.0"]
        /\ cfu.tasks["pkg_a"].latest = Str("1.2.0"))
         => UpdatesMap(cfu.updates) = [n \in {"pkg_a"} |-> "1.2.0"]

\* C9 witness: the end-to-end case, answered by a request (the cache was empty).
C9_Witness ==
  /\ cfu.pc = "returned"
  /\ cfu.declared = [n \in {"pkg_a"} |-> "^1.0.0"]
  /\ cfu.tasks["pkg_a"].latest = Str("1.2.0")
  /\ cfu.updates = <<   <<"pkg_a", "1.2.0">>   >>
  /\ now = 0

\* The updates the same lookup results give when they are recorded in key order.
RECURSIVE InKeyOrder(_, _, _, _)
InKeyOrder(keys, declared, tasks, updates) ==
  IF keys = <<>> THEN updates
  ELSE InKeyOrder(Tail(keys), declared, tasks,
                  Recorded(updates, Head(keys), declared[Head(keys)], tasks[Head(keys)].latest))

\* C10: while checkForUpdates waits, the lookup of every declared name has been
\* started; it has returned only when every lookup is done; and the map it
\* returns is the one the same lookup results give in key order, whatever the
\* order in which the responses arrived.
C10_FanOutThenJoin ==
  /\ cfu.pc = "waiting" =>
       \A n \in DOMAIN cfu.declared : cfu.tasks[n].pc \in {"awaiting", "done"}
  /\ cfu.pc = "returned" =>
       /\ \A n \in DOMAIN cfu.declared : cfu.tasks[n].pc = "done"
       /\ UpdatesMap(cfu.updates) =
            UpdatesMap(InKeyOrder(KeysOf(cfu.declared), cfu.declared, cfu.tasks, <<>>))

\* C10 witness: the requests of both declared names are in flight at once.
C10_Witness ==
  /\ cfu.pc = "waiting"
  /\ DOMAIN cfu.declared = Names
  /\ Cardinality(Names) > 1
  /\ \A n \in Names : cfu.tasks[n].pc = "awaiting"

\* The responses arrived against the key order and both were recorded.
ReverseArrival ==
  /\ cfu.pc = "returned"
  /\ Len(cfu.updates) = 2
  /\ cfu.updates[1][1] = "pkg_b"
  /\ cfu.updates[2][1] = "pkg_a"

(***************************************************************************)
(* The readers of one dependency entry of a manifest: the project scan     *)
(* (WorkspaceService.extractDependencies), the document analysis           *)
(* (PubspecAnalyzer.analyzeDependencySection) and the callback of          *)
(* checkForUpdates.  The three classes carry the same isVersionOutdated.   *)
(***************************************************************************)
\* A parsed YAML value of an entry is a string, null (`name:` with nothing after
\* it) or a map (a path- or git-sourced dependency).
MapValue == [kind |-> "map"]

\* JavaScript truthiness of an entry's value.
Truthy(v) == v # Null /\ ~(v.kind = "string" /\ v.value = "")

\* String(version) of a truthy value.
StringOf(v) == IF v.kind = "string" THEN v.value ELSE "[object Object]"

\* The value as the argument of a function that expects a string.
AsArgument(v) == IF v = Null THEN AbsentString ELSE v.value

RECURSIVE Join(_)
Join(cs) == IF cs = <<>> THEN "" ELSE Head(cs) \o Join(Tail(cs))

\* The end of the longest run of digits that starts at i (i - 1 when there is none).
RECURSIVE DigitRunEnd(_, _)
DigitRunEnd(cs, i) ==
  IF i <= Len(cs) /\ cs[i] \in Digits THEN DigitRunEnd(cs, i + 1) ELSE i - 1

\* Where /[\d]+\.[\d]+\.[\d]+/ started at i ends; 0 when it does not match there.
MatchEnd(cs, i) ==
  LET a == DigitRunEnd(cs, i)
      b == DigitRunEnd(cs, a + 2)
      c == DigitRunEnd(cs, b + 2)
  IN  IF a < i \/ a + 1 > Len(cs) \/ cs[a + 1] # "." THEN 0
      ELSE IF b < a + 2 \/ b + 1 > Len(cs) \/ cs[b + 1] # "." THEN 0
      ELSE IF c < b + 2 THEN 0
      ELSE c

\* constraint.match(/[\d]+\.[\d]+\.[\d]+/): the leftmost match, <<>> when none.
RECURSIVE FirstMatch(_, _)
FirstMatch(cs, i) ==
  IF i > Len(cs) THEN <<>>
  ELSE IF MatchEnd(cs, i) > 0 THEN SubSeq(cs, i, MatchEnd(cs, i))
  ELSE FirstMatch(cs, i + 1)

\* constraint.trim()
RECURSIVE Trim(_)
Trim(cs) ==
  IF cs = <<>> THEN cs
  ELSE IF Head(cs) = " " THEN Trim(Tail(cs))
  ELSE IF cs[Len(cs)] = " " THEN Trim(SubSeq(cs, 1, Len(cs) - 1))
  ELSE cs

ExtractVersionFromConstraint(constraint) ==
  LET match == FirstMatch(Chars(constraint), 1)
  IN  IF IsFalsy(constraint) THEN "1.0.0"
      ELSE IF match # <<>> THEN Join(match)
      ELSE IF Trim(Chars(constraint)) # <<>> THEN Join(Trim(Chars(constraint)))
      ELSE "1.0.0"

\* The body of the loops of extractDependencies for one entry (the first loop
\* leaves out flutter, the second flutter_test): the registry
\* lookups it makes and the DependencyInfo it pushes (Null: none).  The catch
\* around it is not reached: getLatestVersion catches every failure itself.
ScanEntryOp(name, version, isDev, latestVersion) ==
  IF name # (IF isDev THEN "flutter_test" ELSE "flutter") /\ Truthy(version)
    THEN [lookups |-> <<name>>,
          record |-> [name |-> name, version |-> StringOf(version), isDev |-> isDev,
                      isOutdated |-> /\ latestVersion # Null
                                     /\ IsVersionOutdated(StringOf(version),
                                                          latestVersion.value),
                      latestVersion |-> latestVersion]]
    ELSE [lookups |-> <<>>, record |-> Null]

\* The body of the loop of analyzeDependencySection for one entry; hasRange says
\* whether findPackageRange located the entry in the document.
AnalyzeEntryOp(packageName, versionConstraint, isDev, latestVersion, hasRange) ==
  IF packageName \in {"flutter", "flutter_test"} THEN [lookups |-> <<>>, record |-> Null]
  ELSE IF versionConstraint.kind # "string" THEN [lookups |-> <<>>, record |-> Null]
  ELSE IF latestVersion = Null THEN [lookups |-> <<packageName>>, record |-> Null]
  ELSE IF ~hasRange THEN [lookups |-> <<packageName>>, record |-> Null]
  ELSE LET currentVersion == ExtractVersionFromConstraint(versionConstraint.value)
       IN  [lookups |-> <<packageName, packageName>>,
            record |-> [name |-> packageName, currentVersion |-> currentVersion,
                        latestVersion |-> latestVersion,
                        isOutdated |-> IsVersionOutdated(currentVersion,
                                                         latestVersion.value),
                        isDev |-> isDev]]

Read(path, isDev, lookups, record, flag) ==
  /\ rd.pc = "input"
  /\ rd' = [rd EXCEPT !.pc = "done", !.path = path, !.isDev = isDev,
                      !.lookups = lookups, !.record = record, !.flag = flag]
  /\ UNCHANGED <<cacheVars, apiVars, file, projects, ops, autoRunPubGet, fileWatchers>>

\* isVersionOutdated(currentVersion, latestVersion), called as such.
Compare ==
  /\ rd.value # MapValue
  /\ Read("isVersionOutdated", FALSE, <<>>, Null,
          IsVersionOutdated(AsArgument(rd.value), AsArgument(rd.latest)))

\* The callback of checkForUpdates for one name of the dependencies it was given.
\* getLatestVersion returns a non-empty string or null.
UpdateEntry ==
  /\ rd.value # Null /\ rd.value.kind = "string"
  /\ rd.latest # Str("")
  /\ Read("checkForUpdates", FALSE, <<rd.name>>, Null,
          Recorded(<<>>, rd.name, rd.value.value, rd.latest) # <<>>)

ScanEntry(isDev) ==
  LET r == ScanEntryOp(rd.name, rd.value, isDev, rd.latest)
  IN  /\ rd.latest # Str("")
      /\ Read("scan", isDev, r.lookups, r.record, r.record # Null /\ r.record.isOutdated)

AnalyzeEntry(isDev, hasRange) ==
  LET r == AnalyzeEntryOp(rd.name, rd.value, isDev, rd.latest, hasRange)
  IN  /\ rd.latest # Str("")
      /\ Read("analysis", isDev, r.lookups, r.record, r.record # Null /\ r.record.isOutdated)

SvcIdle ==
  /\ now = 0
  /\ cache = EmptyMap
  /\ storage = {}
  /\ enableCache = TRUE
  /\ cacheExpiration = DefaultCacheExpiration
  /\ last = Call("construct", "", Undefined, Null, "loaded")
  /\ written = [k \in CacheKeys |-> NotWritten]

\* The readers are applied to one entry and one answer of the registry.
ReadersInit ==
  /\ SvcIdle
  /\ ApiIdle
  /\ file = MissingFile
  /\ projects = <<>>
  /\ ops = <<>>
  /\ autoRunPubGet = TRUE
  /\ fileWatchers = 0
  /\ \E name \in {"pkg_a", "flutter", "flutter_test"} :
     \E value \in {Null, MapValue} \cup
                  {Str(v) : v \in
                     {"", "1.2.0", "1.0.0", "^1.0.0", "^1.2.0", "^2.0.0", "1.0", "1.2.3",
                      "1.3.0", "2.0.0", "1.9.9", "any", ">=1.0.0 <2.0.0", "1.10.0", "^1.9.0",
                      "1.0.1", "~1.0.0", "1..2", " ", "^>=1.0.0 <2.0.0", "[object Object]"}} :
     \E latest \in {Null} \cup
                   {Str(v) : v \in {"", "1.0.0", "1.0", "1.0.1", "1.2.0", "1.3.0", "1.9.9",
                                    "2.0.0", "any"}} :
       rd = [pc |-> "input", path |-> "", name |-> name, value |-> value, latest |-> latest,
             isDev |-> FALSE, lookups |-> <<>>, record |-> Null, flag |-> FALSE]

ReadersNext ==
  \/ Compare
  \/ UpdateEntry
  \/ \E isDev \in BOOLEAN : ScanEntry(isDev)
  \/ \E isDev \in BOOLEAN, hasRange \in BOOLEAN : AnalyzeEntry(isDev, hasRange)

SpecReaders == ReadersInit /\ [][ReadersNext]_vars

(***************************************************************************)
(* Properties of the version comparison and of the readers, checked under  *)
(* SpecReaders.                                                            *)
(***************************************************************************)
\* The version has a digit or a dot.
IsNumeric(version) == ~IsFalsy(version) /\ StripNonNumeric(Chars(version)) # <<>>
NumericParts(version) == VersionParts(StripNonNumeric(Chars(version)))
Component(parts, i) == IF i \in DOMAIN parts THEN parts[i] ELSE 0
Differing(c, l) == {i \in 1 .. Max(Len(c), Len(l)) : Component(c, i) # Component(l, i)}
Least(S) == CHOOSE x \in S : \A y \in S : x <= y
FirstDifferenceFavoursLatest(c, l) ==
  /\ Differing(c, l) # {}
  /\ Component(l, Least(Differing(c, l))) > Component(c, Least(Differing(c, l)))
Compared(currentVersion, latestVersion) ==
  /\ rd.pc = "done"
  /\ rd.path = "isVersionOutdated"
  /\ rd.value = Str(currentVersion)
  /\ rd.latest = Str(latestVersion)

\* C11: for two versions that have digits or dots, isVersionOutdated is true
\* exactly when, at the first position where the dot-separated numeric components
\* differ (a missing component counting as 0), the latest's component is the
\* greater one; it is false when all are equal.  1.2.3 against 1.3.0 is true,
\* 2.0.0 against 1.9.9 is false, 1.0 against 1.0.0 is false.
C11_FirstDifferenceDecides ==
  /\ (/\ rd.pc = "done"
      /\ rd.path = "isVersionOutdated"
      /\ rd.value # Null /\ IsNumeric(rd.value.value)
      /\ rd.latest # Null /\ IsNumeric(rd.latest.value))
       => rd.flag = FirstDifferenceFavoursLatest(NumericParts(rd.value.value),
                                                 NumericParts(rd.latest.value))
  /\ Compared("1.2.3", "1.3.0") => rd.flag
  /\ Compared("2.0.0", "1.9.9") => ~rd.flag
  /\ Compared("1.0", "1.0.0") => ~rd.flag

\* C11 witness: 1.0.0 compared with 1.0.1, which differ only in the last component.
C11_Witness == Compared("1.0.0", "1.0.1") /\ rd.flag

\* C12: isVersionOutdated is false whenever the declared version or the latest
\* version is empty or absent, or keeps no digit and no dot once stripped,
\* whatever the other version is.
C12_NothingToCompareIsNotOutdated ==
  (/\ rd.pc = "done"
   /\ rd.path = "isVersionOutdated"
   /\ ~IsNumeric(AsArgument(rd.value)) \/ ~IsNumeric(AsArgument(rd.latest)))
    => ~rd.flag

\* C12 witness: an empty declared version against 1.0.0, and `any`, which keeps
\* no digit and no dot, against a version that every numeric version is older than.
C12_Witness ==
  /\ rd.pc = "done"
  /\ rd.path = "isVersionOutdated"
  /\ \/ rd.value = Str("") /\ rd.latest = Str("1.0.0")
     \/ rd.value = Str("any") /\ rd.latest = Str("2.0.0")
  /\ ~rd.flag

\* The constraint embeds more than one X.Y.Z version.
EmbedsSeveralVersions(constraint) ==
  LET cs == Chars(constraint)
  IN  \E i \in 1 .. Len(cs) : \E j \in 1 .. Len(cs) :
        /\ MatchEnd(cs, i) > 0
        /\ j > MatchEnd(cs, i)
        /\ MatchEnd(cs, j) > 0
FirstEmbeddedVersion(constraint) == Join(FirstMatch(Chars(constraint), 1))

\* C13: on each path that computes an outdated flag (the callback of
\* checkForUpdates, the scan that builds a DependencyInfo, the document analysis)
\* a declared constraint that embeds more than one version is compared as its
\* first embedded X.Y.Z: the flag is isVersionOutdated(first X.Y.Z, latest).
C13_RangeComparedAsFirstVersion ==
  (/\ rd.pc = "done"
   /\ rd.path \in {"checkForUpdates", "scan", "analysis"}
   /\ rd.path = "checkForUpdates" \/ rd.record # Null
   /\ rd.latest # Null
   /\ rd.value # Null /\ rd.value.kind = "string"
   /\ EmbedsSeveralVersions(rd.value.value))
    => rd.flag = IsVersionOutdated(FirstEmbeddedVersion(rd.value.value), rd.latest.value)

\* C19: an entry whose value is not a string is skipped by every reader of the
\* manifest: the scan pushes no DependencyInfo for it, the analysis no
\* PackageAnalysis, and neither looks the name up in the registry.
C19_NonStringEntrySkipped ==
  (/\ rd.pc = "done"
   /\ rd.path \in {"scan", "analysis"}
   /\ rd.value = Null \/ rd.value.kind # "string")
    => rd.record = Null /\ rd.lookups = <<>>

(***************************************************************************)
(* WorkspaceService: addDependency, updateDependency, removeDependency on  *)
(* the pubspec.yaml of one project.  `file` is the document the YAML       *)
(* parser makes of the file's content: nothing when the file is missing,   *)
(* malformed when parsing throws, empty when it yields null, otherwise a   *)
(* map with the project's name and the two dependency sections.  The       *)
(* registry's answers to the lookups of a refresh are inputs here.         *)
(***************************************************************************)
NoSection == [kind |-> "absent"]
Section(entries) == [kind |-> "section", entries |-> entries]
Pubspec(name, dependencies, devDependencies) ==
  [kind |-> "map", name |-> name, dependencies |-> dependencies,
   dev_dependencies |-> devDependencies]

ProjectPath == "/app"

\* isDev ? 'dev_dependencies' : 'dependencies'
DependencySection(isDev) == IF isDev THEN "dev_dependencies" ELSE "dependencies"

\* pubspec[section] as a map of entries ({} when the section is not there).
EntriesOf(pubspec, section) ==
  IF pubspec[section].kind = "section" THEN pubspec[section].entries ELSE EmptyMap

\* cleanVersion is version.replace(/^[\^~]/, '')
FormatVersion(version) ==
  LET cs == Chars(version)
      cleanVersion == IF cs # <<>> /\ Head(cs) \in {"^", "~"} THEN Tail(cs) ELSE cs
  IN  IF IsFalsy(version) THEN "^1.0.0" ELSE "^" \o Join(cleanVersion)

\* Mutant of AddDependencyOp: the target section is replaced by one that holds
\* the new entry only.
AddDependencyOpReplacingSection(f, packageName, version, isDev) ==
  IF f.kind # "map"
    THEN [written |-> FALSE, file |-> f, fx |-> <<"showErrorMessage: pubspec.yaml not found">>]
  ELSE [written |-> TRUE,
        file |-> [f EXCEPT ![DependencySection(isDev)] =
                    Section(MapSet(EmptyMap, packageName, Str(FormatVersion(version))))],
        fx |-> <<"writeFileSync">>]

\* addDependency up to the call of runPubGet: the file it leaves, whether it
\* wrote it, and what it showed.
AddDependencyOp(f, packageName, version, isDev) ==
  IF f.kind = "missing"
    THEN [written |-> FALSE, file |-> f, fx |-> <<"showErrorMessage: pubspec.yaml not found">>]
  ELSE IF f.kind \in {"malformed", "empty"}
    THEN [written |-> FALSE, file |-> f, fx |-> <<"showErrorMessage: Failed to add dependency">>]
  ELSE [written |-> TRUE,
        file |-> [f EXCEPT ![DependencySection(isDev)] =
                    Section(MapSet(EntriesOf(f, DependencySection(isDev)), packageName,
                                   Str(FormatVersion(version))))],
        fx |-> <<"writeFileSync">>]

\* Mutant of RemoveDependencyOp: a file that cannot be parsed into a map is read
\* as a manifest without sections.
RemoveDependencyOpLenient(f, packageName, isDev) ==
  IF f.kind = "missing"
    THEN [written |-> FALSE, file |-> f, fx |-> <<"showErrorMessage: pubspec.yaml not found">>]
  ELSE IF /\ f.kind = "map"
          /\ f[DependencySection(isDev)].kind = "section"
          /\ packageName \in DOMAIN EntriesOf(f, DependencySection(isDev))
          /\ Truthy(EntriesOf(f, DependencySection(isDev))[packageName])
    THEN [written |-> TRUE,
          file |-> [f EXCEPT ![DependencySection(isDev)] =
                      Section(MapDelete(EntriesOf(f, DependencySection(isDev)), packageName))],
          fx |-> <<"writeFileSync">>]
  ELSE [written |-> FALSE, file |-> f, fx |-> <<"showWarningMessage: not found in dependencies">>]

\* removeDependency up to the call of runPubGet.
RemoveDependencyOp(f, packageName, isDev) ==
  IF f.kind = "missing"
    THEN [written |-> FALSE, file |-> f, fx |-> <<"showErrorMessage: pubspec.yaml not found">>]
  ELSE IF f.kind \in {"malformed", "empty"}
    THEN [written |-> FALSE, file |-> f,
          fx |-> <<"showErrorMessage: Failed to remove dependency">>]
  ELSE IF /\ f[DependencySection(isDev)].kind = "section"
          /\ packageName \in DOMAIN EntriesOf(f, DependencySection(isDev))
          /\ Truthy(EntriesOf(f, DependencySection(isDev))[packageName])
    THEN [written |-> TRUE,
          file |-> [f EXCEPT ![DependencySection(isDev)] =
                      Section(MapDelete(EntriesOf(f, DependencySection(isDev)), packageName))],
          fx |-> <<"writeFileSync">>]
  ELSE [written |-> FALSE, file |-> f, fx |-> <<"showWarningMessage: not found in dependencies">>]

\* One loop of extractDependencies: the entries of a section in key order, each
\* read by ScanEntryOp with the registry's answer for its name.
SectionScan(pubspec, isDev, latest) ==
  LET entries == EntriesOf(pubspec, DependencySection(isDev))
      keys == SelectSeq(KeyOrder, LAMBDA n : n \in DOMAIN entries)
  IN  [i \in 1 .. Len(keys) |-> ScanEntryOp(keys[i], entries[keys[i]], isDev, latest)]

RECURSIVE Lookups(_)
Lookups(scans) == IF scans = <<>> THEN <<>> ELSE Head(scans).lookups \o Lookups(Tail(scans))

ExtractDependencies(pubspec, latest) ==
  LET scans == SectionScan(pubspec, FALSE, latest) \o SectionScan(pubspec, TRUE, latest)
      pushed == SelectSeq(scans, LAMBDA r : r.record # Null)
  IN  [dependencies |-> [i \in 1 .. Len(pushed) |-> pushed[i].record],
       lookups |-> Lookups(scans)]

\* createProjectFromPath: null when the file cannot be read or parsed, is empty
\* or has no name.
CreateProjectFromPath(f, latest) ==
  IF f.kind # "map" THEN Null
  ELSE IF f.name = "" THEN Null
  ELSE [kind |-> "project", name |-> f.name, path |-> ProjectPath,
        dependencies |-> ExtractDependencies(f, latest).dependencies]

\* projects.findIndex(p => p.path === projectPath), 0 when there is none.
FindIndex(ps, projectPath) ==
  IF \E i \in 1 .. Len(ps) : ps[i].path = projectPath
    THEN CHOOSE i \in 1 .. Len(ps) :
           /\ ps[i].path = projectPath
           /\ \A j \in 1 .. i - 1 : ps[j].path # projectPath
    ELSE 0

\* this.projects[index] = project: an index past the end, left by a project list
\* that has become shorter since the index was found, extends the array.
AssignAt(ps, index, project) ==
  IF index <= Len(ps) THEN [ps EXCEPT ![index] = project] ELSE Append(ps, project)

\* executePubGet resolves with this after its timer, whatever the tool did.
ExecutePubGetResult == [success |-> TRUE, error |-> ""]

\* WorkspaceService.handlePubGetError
HandlePubGetError(errorOutput) == <<"WorkspaceService.handlePubGetError", "showErrorMessage: Pub get failed">>

\* DependencyResolver.handlePubGetError: the remediation dialog for the kind of
\* error, or the plain error message.  No code calls it.
DependencyResolverHandlePubGetError(errorOutput) ==
  <<"DependencyResolver.handlePubGetError">> \o
    (IF errorOutput = "version solving failed"
       THEN <<"showErrorMessage: Dependency version conflict detected!">>
     ELSE IF errorOutput = "sdk constraint"
       THEN <<"showErrorMessage: SDK constraint error detected!">>
     ELSE <<"showErrorMessage: Pub get failed">>)

\* runPubGet once executePubGet has resolved.
PubGetReported(result) ==
  IF result.success THEN <<"showInformationMessage: Dependencies updated successfully!">>
  ELSE HandlePubGetError(result.error)

OpIds == {1}
IdleOp ==
  [kind |-> "none", pc |-> "idle", name |-> "", version |-> "", isDev |-> FALSE,
   ret |-> Null, fx |-> <<>>, read |-> Null, index |-> 0]
NewOp(kind, packageName, version, isDev) ==
  [IdleOp EXCEPT !.kind = kind, !.name = packageName, !.version = version, !.isDev = isDev]

\* The operation in slot o is left with the record rec and returns ret.
OpReturned(o, rec, fx, ret) ==
  ops' = [ops EXCEPT ![o] = [rec EXCEPT !.pc = "returned", !.ret = Bool(ret), !.fx = @ \o fx]]

\* refreshProject, entered when runPubGet is over, and the rest of the operation.
\* The file is read at once; when the project is tracked and the scan has names
\* to look up, the operation waits for the registry.
RefreshProject(o, rec, f) ==
  LET index == FindIndex(projects, ProjectPath)
      project == CreateProjectFromPath(f, Null)
      waits == index > 0 /\ project # Null /\ ExtractDependencies(f, Null).lookups # <<>>
  IN  IF waits
        THEN /\ ops' = [ops EXCEPT ![o] = [rec EXCEPT !.pc = "refresh", !.read = f,
                                                      !.index = index,
                                                      !.fx = @ \o <<"refreshProject">>]]
             /\ UNCHANGED projects
        ELSE /\ projects' = IF index > 0 /\ project # Null
                              THEN AssignAt(projects, index, project)
                              ELSE projects
             /\ OpReturned(o, rec, <<"refreshProject", "showInformationMessage">>, TRUE)

\* The part of an operation that runs before its first wait.  r is what the
\* operation made of the file; throws says whether creating the terminal or the
\* progress notification throws, which the catch of runPubGet reports.
StartOp(o, rec, r, throws) ==
  /\ throws => r.written
  /\ file' = r.file
  /\ IF ~r.written
       THEN OpReturned(o, rec, r.fx, FALSE) /\ UNCHANGED projects
     ELSE IF throws
       THEN RefreshProject(o, [rec EXCEPT !.fx = r.fx \o <<"runPubGet",
                                              "showErrorMessage: Failed to run pub get">>],
                           r.file)
     ELSE /\ ops' = [ops EXCEPT ![o] = [rec EXCEPT !.pc = "pubGet",
                                                   !.fx = r.fx \o <<"runPubGet">>]]
          /\ UNCHANGED projects
  /\ UNCHANGED <<cacheVars, apiVars, rd, autoRunPubGet, fileWatchers>>

AddDependency(o, packageName, version, isDev, throws) ==
  /\ ops[o].pc \in {"idle", "returned"}
  /\ StartOp(o, NewOp("add", packageName, version, isDev),
             AddDependencyOp(file, packageName, version, isDev), throws)

\* Mutant of UpdateDependency: a constraint the manifest already declares for the
\* package is kept.
UpdateDependencyKeepingPrevious(o, packageName, newVersion, isDev, throws) ==
  LET entries == IF file.kind = "map" THEN EntriesOf(file, DependencySection(isDev))
                 ELSE EmptyMap
      kept == IF packageName \in DOMAIN entries /\ entries[packageName] \in {Str("^1.2.0")}
                THEN entries[packageName].value ELSE newVersion
  IN  /\ ops[o].pc \in {"idle", "returned"}
      /\ StartOp(o, NewOp("update", packageName, newVersion, isDev),
                 AddDependencyOp(file, packageName, kept, isDev), throws)

\* updateDependency: `return this.addDependency(...)`
UpdateDependency(o, packageName, newVersion, isDev, throws) ==
  /\ ops[o].pc \in {"idle", "returned"}
  /\ StartOp(o, NewOp("update", packageName, newVersion, isDev),
             AddDependencyOp(file, packageName, newVersion, isDev), throws)

RemoveDependency(o, packageName, isDev, throws) ==
  /\ ops[o].pc \in {"idle", "returned"}
  /\ StartOp(o, NewOp("remove", packageName, "", isDev),
             RemoveDependencyOp(file, packageName, isDev), throws)

\* updateProjectDependencies, for one package of the updates it found: the
\* project's checkForUpdates maps each dependency's name to its declared version
\* (the last one of a name declared twice), the registry's latest version makes the
\* name an update when the declared one is outdated, and 'Update All' and
\* 'Update Individually' call updateDependency(projectPath, name, version).
UpdateProjectDependencies(o, packageName, latest, throws) ==
  LET index == FindIndex(projects, ProjectPath)
      dependencies == projects[index].dependencies
      declared == {i \in 1 .. Len(dependencies) : dependencies[i].name = packageName}
      dep == dependencies[CHOOSE i \in declared : \A j \in declared : j <= i]
  IN  /\ index > 0
      /\ declared # {}
      /\ latest # Null
      /\ IsVersionOutdated(dep.version, latest.value)
      /\ UpdateDependency(o, packageName, latest.value, FALSE, throws)

\* The timer of executePubGet fires: runPubGet reports and refreshProject starts.
PubGetDone(o) ==
  /\ ops[o].pc = "pubGet"
  /\ ops[o].kind \in {"add", "update", "remove"}
  /\ RefreshProject(o, [ops[o] EXCEPT !.fx = @ \o PubGetReported(ExecutePubGetResult)], file)
  /\ UNCHANGED <<cacheVars, apiVars, rd, file, autoRunPubGet, fileWatchers>>

\* The lookups of the refresh are answered: the project made of the file as it
\* was read replaces the one at the index found then, and the operation returns.
RefreshDone(o, latest) ==
  /\ ops[o].pc = "refresh"
  /\ ops[o].kind \in {"add", "update", "remove"}
  /\ projects' = AssignAt(projects, ops[o].index, CreateProjectFromPath(ops[o].read, latest))
  /\ OpReturned(o, ops[o], <<"showInformationMessage">>, TRUE)
  /\ UNCHANGED <<cacheVars, apiVars, rd, file, autoRunPubGet, fileWatchers>>

\* Mutant of DetectConflicts: the conflict is reported for a project whose
\* manifest can be read.
DetectConflictsInManifest(projectPath) ==
  IF projectPath = ProjectPath /\ file.kind = "map"
    THEN <<[packageName |-> "flutter_lints", conflictingVersions |-> <<"^6.0.0", "^5.0.0">>,
            suggestedResolution |-> "^5.0.0",
            reason |-> "Incompatible version ranges between direct and transitive dependencies"]>>
    ELSE <<>>

\* DependencyResolver.detectConflicts
DetectConflicts(projectPath) ==
  <<[packageName |-> "flutter_lints", conflictingVersions |-> <<"^6.0.0", "^5.0.0">>,
     suggestedResolution |-> "^5.0.0",
     reason |-> "Incompatible version ranges between direct and transitive dependencies"]>>

\* detectConflicts(projectPath) is called and returns its list.
DetectConflictsCalled(o, projectPath) ==
  /\ ops[o].pc \in {"idle", "returned"}
  /\ ops' = [ops EXCEPT ![o] = [NewOp("detectConflicts", projectPath, "", FALSE) EXCEPT
                                  !.pc = "returned",
                                  !.ret = List(DetectConflicts(projectPath))]]
  /\ UNCHANGED <<cacheVars, apiVars, rd, file, projects, autoRunPubGet, fileWatchers>>

\* The arguments of the operations: the package, which is at version 1.0.0, and
\* the constraint asked for (exact, caret, tilde, a range, none); and what
\* getLatestVersion answers during a refresh.
OpNames == {"pkg_a"}
OpVersions == {"1.0.0", "^1.0.0", "~1.0.0", ">=1.0.0 <2.0.0", ""}
RegistryAnswers == {Null, Str("1.2.0")}

\* The file is missing, malformed, empty or a manifest, with or without a name;
\* a section of it is absent or declares pkg_a (as a constraint, with no value or
\* as a path dependency), pkg_b (as a constraint), both or neither.  The project
\* list is the one initialize made of the file.
ManifestInit ==
  /\ SvcIdle
  /\ ApiIdle
  /\ rd = NoEntry
  /\ \E name \in {"app"}, sections \in
          {{NoSection} \cup
           {Section(e) : e \in
              {m \in UNION {[ns -> {Str("^1.2.0"), Str("^1.9.0"), Null, MapValue}] :
                              ns \in SUBSET Names} :
                 \A n \in DOMAIN m : (n = "pkg_b") = (m[n] = Str("^1.9.0"))}}} :
       file \in {MissingFile, [kind |-> "malformed"], [kind |-> "empty"],
                 Pubspec("", NoSection, NoSection)} \cup
                {Pubspec(name, d, dd) : d \in sections, dd \in sections}
  /\ \E latest \in RegistryAnswers :
       projects = IF CreateProjectFromPath(file, latest) = Null THEN <<>>
                  ELSE <<CreateProjectFromPath(file, latest)>>
  /\ ops = [o \in OpIds |-> IdleOp]
  /\ autoRunPubGet \in BOOLEAN
  /\ fileWatchers = 0

ManifestNext ==
  \/ \E o \in OpIds, n \in OpNames, v \in OpVersions, isDev \in BOOLEAN, throws \in BOOLEAN :
       AddDependency(o, n, v, isDev, throws)
  \/ \E o \in OpIds, n \in OpNames, v \in OpVersions, isDev \in BOOLEAN, throws \in BOOLEAN :
       UpdateDependency(o, n, v, isDev, throws)
  \/ \E o \in OpIds, n \in OpNames, isDev \in BOOLEAN, throws \in BOOLEAN :
       RemoveDependency(o, n, isDev, throws)
  \/ \E o \in OpIds : PubGetDone(o)
  \/ \E o \in OpIds, latest \in RegistryAnswers : RefreshDone(o, latest)
  \/ \E o \in OpIds, p \in {ProjectPath, "/other"} : DetectConflictsCalled(o, p)
  \/ \E o \in OpIds, n \in OpNames, latest \in RegistryAnswers, throws \in BOOLEAN :
       UpdateProjectDependencies(o, n, latest, throws)

SpecManifest == ManifestInit /\ [][ManifestNext]_vars

(***************************************************************************)
(* Properties of the manifest operations, checked under SpecManifest.      *)
(***************************************************************************)
\* Position of the first occurrence of e in the effects fx, 0 when there is none.
Position(fx, e) ==
  IF \E i \in 1 .. Len(fx) : fx[i] = e
    THEN CHOOSE i \in 1 .. Len(fx) : fx[i] = e /\ \A j \in 1 .. i - 1 : fx[j] # e
    ELSE 0
ReturnedWith(o, kinds, ret) ==
  ops[o].kind \in kinds /\ ops[o].pc = "returned" /\ ops[o].ret = Bool(ret)

\* g is f with the entry name -> value in its section for isDev and nothing else
\* changed: the document's kind and name, the other section, and every other
\* key of the target section.
SameExceptEntry(f, g, packageName, isDev, value) ==
  /\ g.kind = "map"
  /\ g.name = f.name
  /\ g[DependencySection(~isDev)] = f[DependencySection(~isDev)]
  /\ g[DependencySection(isDev)].kind = "section"
  /\ DOMAIN EntriesOf(g, DependencySection(isDev)) =
       DOMAIN EntriesOf(f, DependencySection(isDev)) \cup {packageName}
  /\ EntriesOf(g, DependencySection(isDev))[packageName] = value
  /\ \A k \in DOMAIN EntriesOf(f, DependencySection(isDev)) \ {packageName} :
       EntriesOf(g, DependencySection(isDev))[k] = EntriesOf(f, DependencySection(isDev))[k]

\* C14: an addDependency that goes on to return true writes, in its first step,
\* the manifest it read with name -> formatVersion(version) in the target section
\* (created when it was not there) and nothing else changed; the file is written
\* before the package fetch is started and before the project is refreshed; and
\* an addDependency that wrote the file returns true, one that did not, false.
C14_AddChangesOneEntry ==
  /\ [][\A o \in OpIds, n \in OpNames, v \in OpVersions, isDev \in BOOLEAN, throws \in BOOLEAN :
          (file.kind = "map" /\ AddDependency(o, n, v, isDev, throws))
            => SameExceptEntry(file, file', n, isDev, Str(FormatVersion(v)))]_vars
  /\ [](\A o \in OpIds :
          /\ ReturnedWith(o, {"add"}, TRUE) =>
               /\ Position(ops[o].fx, "writeFileSync") = 1
               /\ Position(ops[o].fx, "runPubGet") = 2
               /\ Position(ops[o].fx, "refreshProject") > 2
          /\ ReturnedWith(o, {"add"}, FALSE) => Position(ops[o].fx, "writeFileSync") = 0
          /\ (ops[o].kind = "add" /\ ops[o].pc \notin {"idle", "returned"}) =>
               Position(ops[o].fx, "writeFileSync") = 1)

\* C14 witness: pkg_a was added to a dependencies section that declares pkg_b,
\* beside a dev_dependencies section that declares pkg_a, and the call returned true.
C14_Witness ==
  /\ ReturnedWith(1, {"add"}, TRUE)
  /\ ~ops[1].isDev
  /\ file.kind = "map"
  /\ EntriesOf(file, "dependencies") =
       [n \in Names |-> IF n = "pkg_a" THEN Str("^1.0.0") ELSE Str("^1.9.0")]
  /\ EntriesOf(file, "dev_dependencies") = [n \in {"pkg_a"} |-> Str("^1.2.0")]

\* The DependencyInfo of the tracked project for a name and a section.
InfoVersions(packageName, isDev) ==
  {projects[1].dependencies[i].version : i \in
     {j \in 1 .. Len(projects[1].dependencies) :
        /\ projects[1].dependencies[j].name = packageName
        /\ projects[1].dependencies[j].isDev = isDev}}

\* C15: after an addDependency or updateDependency of a package at version 1.0.0
\* has returned true, the entry written is ^1.0.0 and the DependencyInfo re-read
\* from the manifest has version ^1.0.0, whatever constraint the caller passed
\* (exact, caret, tilde, custom).
C15_WrittenInCaretForm ==
  \A o \in OpIds :
    ReturnedWith(o, {"add", "update"}, TRUE) =>
      /\ EntriesOf(file, DependencySection(ops[o].isDev))[ops[o].name] = Str("^1.0.0")
      /\ projects # <<>> => InfoVersions(ops[o].name, ops[o].isDev) = {"^1.0.0"}

\* C16: a step of updateDependency(name, v, isDev) leaves the file addDependency
\* with the same arguments leaves, shows what it shows and returns what it
\* returns; the value written is formatVersion(v) whatever the manifest declared
\* for the name before; and the same update applied to the file it left leaves
\* that file as it is.
C16_UpdateIsAddAndIdempotent ==
  [][\A o \in OpIds, n \in OpNames, v \in OpVersions, isDev \in BOOLEAN, throws \in BOOLEAN :
       UpdateDependency(o, n, v, isDev, throws) =>
         LET add == AddDependencyOp(file, n, v, isDev)
         IN  /\ file' = add.file
             /\ SubSeq(ops'[o].fx, 1, Len(add.fx)) = add.fx
             /\ ops'[o].pc = "returned" => ops'[o].ret = Bool(add.written)
             /\ ops'[o].pc # "returned" => add.written
             /\ add.written =>
                  /\ EntriesOf(file', DependencySection(isDev))[n] = Str(FormatVersion(v))
                  /\ AddDependencyOp(file', n, v, isDev).file = file']_vars

\* C16 witness: an update of pkg_a under dev_dependencies to ~1.0.0 has returned
\* true; the manifest and the re-read DependencyInfo have the constraint written.
C16_Witness ==
  /\ ReturnedWith(1, {"update"}, TRUE)
  /\ ops[1].version = "~1.0.0"
  /\ ops[1].isDev
  /\ EntriesOf(file, "dev_dependencies")["pkg_a"] = Str("^1.0.0")
  /\ projects # <<>>
  /\ InfoVersions("pkg_a", TRUE) = {"^1.0.0"}

\* C17: a step of removeDependency(name, isDev) on a manifest whose target section
\* has the key name leaves the file without that key, written before the fetch is
\* started; on a manifest without the key it returns false having shown only the
\* warning, with the file as it was and neither the fetch nor the refresh run.
C17_RemoveDeletesPresentKey ==
  [][\A o \in OpIds, n \in OpNames, isDev \in BOOLEAN, throws \in BOOLEAN :
       (file.kind = "map" /\ RemoveDependency(o, n, isDev, throws)) =>
         IF n \in DOMAIN EntriesOf(file, DependencySection(isDev))
           THEN /\ file' = [file EXCEPT ![DependencySection(isDev)] =
                              Section(MapDelete(EntriesOf(file, DependencySection(isDev)), n))]
                /\ SubSeq(ops'[o].fx, 1, 2) = <<"writeFileSync", "runPubGet">>
                /\ ops'[o].pc = "returned" => ops'[o].ret = Bool(TRUE)
           ELSE /\ file' = file
                /\ ops'[o].pc = "returned"
                /\ ops'[o].ret = Bool(FALSE)
                /\ ops'[o].fx = <<"showWarningMessage: not found in dependencies">>]_vars

C20_FetchFailureHandedToResolver ==
  \A o \in OpIds :
    (\/ Position(ops[o].fx, "showErrorMessage: Failed to run pub get") > 0
     \/ Position(ops[o].fx, HandlePubGetError("")[1]) > 0)
      => /\ Position(ops[o].fx, DependencyResolverHandlePubGetError("")[1]) > 0
         /\ Position(ops[o].fx, "writeFileSync") = 1
         /\ ops[o].pc = "returned" => ops[o].ret = Bool(TRUE)

(***************************************************************************)
(* The cache lookups of the registry client, checked under SpecApi.        *)
(***************************************************************************)
\* C27: with the cache enabled, a searchPackages or getPackageDetails call that
\* returns without having issued a request returns the value stored in the cache
\* for its key, also when the clock passes the entry's expiry between has(key)
\* and get(key).
C27_NoEmptyAnswerWithoutRequest ==
  [][enableCache =>
       /\ \A c \in CallIds, q \in Queries, p \in Pages, skip \in Skips :
            (StartSearch(c, q, p, skip) /\ done'.requests = 0)
              => /\ SearchKey(q, p) \in DOMAIN cache
                 /\ done'.ret = cache[SearchKey(q, p)].data
       /\ \A c \in CallIds, n \in Names, skip \in Skips :
            (StartDetails(c, n, skip) /\ done'.requests = 0)
              => /\ PackageKey(n) \in DOMAIN cache
                 /\ done'.ret = cache[PackageKey(n)].data
    ]_vars

(***************************************************************************)
(* PubspecAnalyzer.findPackageRange.  The document is the sequence of its  *)
(* lines (text.split('\n')); a line is inspected through its characters.   *)
(***************************************************************************)
\* line.search(/\S/): the 0-based position of the first character that is not
\* white space, -1 when there is none.
LineIndent(cs) ==
  IF \E i \in 1 .. Len(cs) : cs[i] # " "
    THEN (CHOOSE i \in 1 .. Len(cs) : cs[i] # " " /\ \A j \in 1 .. i - 1 : cs[j] = " ") - 1
    ELSE -1

\* trimmedLine.startsWith(prefix)
StartsWith(cs, prefix) ==
  Len(prefix) <= Len(cs) /\ SubSeq(cs, 1, Len(prefix)) = prefix

\* The loop of findPackageRange from line i (1-based here, 0-based in the range).
RECURSIVE FindPackageRangeFrom(_, _, _, _, _, _)
FindPackageRangeFrom(lines, packageName, sectionName, i, inSection, sectionIndent) ==
  IF i > Len(lines) THEN Null
  ELSE LET line == Chars(lines[i])
           trimmedLine == Trim(line)
           lineIndent == LineIndent(line)
       IN  IF trimmedLine = Chars(sectionName \o ":")
             THEN FindPackageRangeFrom(lines, packageName, sectionName, i + 1, TRUE, lineIndent)
           ELSE IF ~inSection
             THEN FindPackageRangeFrom(lines, packageName, sectionName, i + 1, FALSE,
                                       sectionIndent)
           ELSE IF /\ lineIndent <= sectionIndent
                   /\ trimmedLine # <<>>
                   /\ trimmedLine[Len(trimmedLine)] = ":"
             THEN Null
           ELSE IF StartsWith(trimmedLine, Chars(packageName \o ":"))
             THEN [kind |-> "range", line |-> i - 1, start |-> lineIndent, end |-> Len(line)]
           ELSE FindPackageRangeFrom(lines, packageName, sectionName, i + 1, TRUE,
                                     sectionIndent)

FindPackageRange(lines, packageName, sectionName) ==
  FindPackageRangeFrom(lines, packageName, sectionName, 1, FALSE, 0)

\* A document of the analyzer has MaxLines lines at most.
MaxLines == 4

\* findPackageRange is called on a document.
FindRange ==
  /\ rd.pc = "document"
  /\ rd' = [rd EXCEPT !.pc = "found",
                      !.range = FindPackageRange(rd.lines, rd.name, rd.section)]
  /\ UNCHANGED <<cacheVars, apiVars, file, projects, ops, autoRunPubGet, fileWatchers>>

\* The document's lines: the two section headers (one also with a trailing
\* comment), an entry of foo, an entry of bar, the manifest's own version and an
\* empty line.  The package looked for is foo, bar or the package named version.
RangeInit ==
  /\ SvcIdle
  /\ ApiIdle
  /\ file = MissingFile
  /\ projects = <<>>
  /\ ops = <<>>
  /\ autoRunPubGet = TRUE
  /\ fileWatchers = 0
  /\ \E n \in 0 .. MaxLines :
     \E lines \in [1 .. n -> {"dependencies:", "dev_dependencies:", "dev_dependencies: # tools",
                              "  foo: ^1.0.0", "  bar: ^2.0.0", "version: 1.0.0", ""}] :
     \E name \in {"foo", "bar", "version"}, section \in {"dependencies", "dev_dependencies"} :
       rd = [pc |-> "document", lines |-> lines, name |-> name, section |-> section,
             range |-> Null]

SpecRange == RangeInit /\ [][FindRange]_vars

(***************************************************************************)
(* Properties of findPackageRange, checked under SpecRange.  What a        *)
(* document declares is read off its lines as YAML does: a section runs    *)
(* from its header, with or without a comment behind it, to the next line  *)
(* that is not indented.                                                   *)
(***************************************************************************)
HeaderOf(l) ==
  IF l = "dependencies:" THEN "dependencies"
  ELSE IF l \in {"dev_dependencies:", "dev_dependencies: # tools"} THEN "dev_dependencies"
  ELSE ""
EntryName(l) ==
  IF l = "  foo: ^1.0.0" THEN "foo" ELSE IF l = "  bar: ^2.0.0" THEN "bar" ELSE ""
NotIndented(l) == HeaderOf(l) # "" \/ l = "version: 1.0.0"
\* The lines of the section's entries.
DeclaredAt(lines, section) ==
  {i \in 1 .. Len(lines) :
     /\ EntryName(lines[i]) # ""
     /\ \E h \in 1 .. i - 1 :
          /\ HeaderOf(lines[h]) = section
          /\ \A j \in h + 1 .. i - 1 : ~NotIndented(lines[j])}
DeclaredNames(lines, section) == {EntryName(lines[i]) : i \in DeclaredAt(lines, section)}
\* Each section has its header once, and the two sections declare different keys.
TwoSections(lines) ==
  /\ \A section \in {"dependencies", "dev_dependencies"} :
       /\ Cardinality({h \in 1 .. Len(lines) : HeaderOf(lines[h]) = section}) = 1
       /\ DeclaredNames(lines, section) # {}
  /\ DeclaredNames(lines, "dependencies") \cap DeclaredNames(lines, "dev_dependencies") = {}

\* C25: in a document whose dependencies and dev_dependencies sections declare
\* different keys, in either order, findPackageRange returns a line of the
\* searched section that declares the key when the section declares it, and no
\* range when only the other section declares it.
C25_MatchScopedToSection ==
  (rd.pc = "found" /\ TwoSections(rd.lines)) =>
    IF rd.name \in DeclaredNames(rd.lines, rd.section)
      THEN /\ rd.range # Null
           /\ rd.range.line + 1 \in DeclaredAt(rd.lines, rd.section)
           /\ EntryName(rd.lines[rd.range.line + 1]) = rd.name
      ELSE rd.name \in {"foo", "bar"} => rd.range = Null

\* C26: a range that findPackageRange returns is on the first line after the
\* section header that begins with 'name:'; that line is indented more than the
\* header, and no line between the two is indented as the header or less and
\* ends in ':'.
C26_RangeIndentedUnderHeader ==
  (rd.pc = "found" /\ rd.range # Null) =>
    \E h \in 1 .. rd.range.line :
      LET r == rd.range.line + 1
          between == h + 1 .. r - 1
          indent(i) == LineIndent(Chars(rd.lines[i]))
      IN  /\ rd.lines[h] = rd.section \o ":"
          /\ StartsWith(Trim(Chars(rd.lines[r])), Chars(rd.name \o ":"))
          /\ \A j \in between : ~StartsWith(Trim(Chars(rd.lines[j])), Chars(rd.name \o ":"))
          /\ indent(r) > indent(h)
          /\ \A j \in between : ~(/\ indent(j) <= indent(h)
                                  /\ rd.lines[j] \in {"dependencies:", "dev_dependencies:"})
          /\ rd.range.start = indent(r)

(***************************************************************************)
(* Further properties of the workspace service and the resolver, checked   *)
(* under SpecManifest.                                                     *)
(***************************************************************************)
\* C24: whatever the project path and whatever the manifest file holds, the list
\* detectConflicts returns is the one flutter_lints conflict.
C24_ConflictsAreConstant ==
  \A o \in OpIds :
    (ops[o].kind = "detectConflicts" /\ ops[o].pc = "returned")
      => /\ ops[o].ret.kind = "list"
         /\ Len(ops[o].ret.items) = 1
         /\ ops[o].ret.items[1].packageName = "flutter_lints"
         /\ ops[o].ret.items[1].conflictingVersions = <<"^6.0.0", "^5.0.0">>
         /\ ops[o].ret.items[1].suggestedResolution = "^5.0.0"

\* C24 witness: detectConflicts has returned for a path that is not the
\* project's while the project's manifest file is missing.
C24_Witness ==
  /\ ops[1].kind = "detectConflicts"
  /\ ops[1].pc = "returned"
  /\ ops[1].name = "/other"
  /\ file = MissingFile

\* C30: an update of an outdated dependency made by updateProjectDependencies
\* adds the name to no section that did not declare it: a dependency declared
\* only under dev_dependencies is declared only there afterwards.
C30_UpdateKeepsSection ==
  [][\A o \in OpIds, n \in OpNames, latest \in RegistryAnswers, throws \in BOOLEAN :
       (file.kind = "map" /\ UpdateProjectDependencies(o, n, latest, throws))
         => \A section \in {"dependencies", "dev_dependencies"} :
              n \in DOMAIN EntriesOf(file', section) => n \in DOMAIN EntriesOf(file, section)
    ]_vars

(***************************************************************************)
(* WorkspaceService under file events.  initialize scans the workspace and *)
(* adds a watcher; every watcher runs its handlers on every event of the   *)
(* project's pubspec.yaml.  A handler or command in progress has a slot of *)
(* ops; what an async function does before its first wait on the registry  *)
(* or a timer is one step.                                                 *)
(***************************************************************************)
\* initialize is called MaxWatchers times at most, the activation's call included.
MaxWatchers == 2

\* The n lowest slots of ops that are free, when n slots are free.
FreeSlots(n) ==
  LET free == {o \in DOMAIN ops : ops[o].pc \in {"idle", "returned"}}
  IN  {o \in free : Cardinality({q \in free : q < o}) < n}

\* onDidChange after `await this.refreshProject(projectPath)`: the handler reads
\* the setting and runs runPubGet or is over.
AfterRefresh(rec) ==
  IF autoRunPubGet
    THEN [rec EXCEPT !.pc = "pubGet", !.fx = @ \o <<"runPubGet">>]
    ELSE [rec EXCEPT !.pc = "returned", !.read = Null, !.index = 0]

\* The file is written by someone (newFile may be the content it had) and every
\* watcher's onDidChange runs up to its first wait: refreshProject finds the
\* index, reads the file and waits for the registry when the project is tracked
\* and the manifest has entries to look up.
FileChanged(newFile) ==
  LET index == FindIndex(projects, ProjectPath)
      project == CreateProjectFromPath(newFile, Null)
      waits == index > 0 /\ project # Null /\ ExtractDependencies(newFile, Null).lookups # <<>>
      rec == [NewOp("change", "", "", FALSE) EXCEPT !.read = newFile, !.index = index,
                                                    !.fx = <<"refreshProject">>]
  IN  /\ file.kind # "missing"
      /\ newFile.kind # "missing"
      /\ Cardinality(FreeSlots(fileWatchers)) = fileWatchers
      /\ file' = newFile
      /\ IF waits
           THEN /\ ops' = [o \in DOMAIN ops |->
                             IF o \in FreeSlots(fileWatchers)
                               THEN [rec EXCEPT !.pc = "refresh"] ELSE ops[o]]
                /\ UNCHANGED projects
           ELSE /\ projects' = IF index > 0 /\ project # Null
                                 THEN AssignAt(projects, index, project)
                                 ELSE projects
                /\ ops' = [o \in DOMAIN ops |->
                             IF o \in FreeSlots(fileWatchers)
                               THEN AfterRefresh(rec) ELSE ops[o]]
      /\ UNCHANGED <<cacheVars, apiVars, rd, autoRunPubGet, fileWatchers>>

\* The lookups of a handler's refresh are answered.
ChangeRefreshed(o, latest) ==
  /\ ops[o].kind = "change"
  /\ ops[o].pc = "refresh"
  /\ projects' = AssignAt(projects, ops[o].index, CreateProjectFromPath(ops[o].read, latest))
  /\ ops' = [ops EXCEPT ![o] = AfterRefresh(ops[o])]
  /\ UNCHANGED <<cacheVars, apiVars, rd, file, autoRunPubGet, fileWatchers>>

\* The timer of the handler's executePubGet fires.
ChangePubGetDone(o) ==
  /\ ops[o].kind = "change"
  /\ ops[o].pc = "pubGet"
  /\ ops' = [ops EXCEPT ![o] = [@ EXCEPT !.pc = "returned", !.read = Null, !.index = 0,
                                         !.fx = @ \o PubGetReported(ExecutePubGetResult)]]
  /\ UNCHANGED <<cacheVars, apiVars, rd, file, projects, autoRunPubGet, fileWatchers>>

\* The file is created and every watcher's onDidCreate runs up to its first wait.
FileCreated(newFile) ==
  LET project == CreateProjectFromPath(newFile, Null)
      waits == project # Null /\ ExtractDependencies(newFile, Null).lookups # <<>>
      rec == [NewOp("create", "", "", FALSE) EXCEPT !.read = newFile]
  IN  /\ file.kind = "missing"
      /\ newFile.kind # "missing"
      /\ Cardinality(FreeSlots(fileWatchers)) = fileWatchers
      /\ file' = newFile
      /\ IF waits
           THEN /\ ops' = [o \in DOMAIN ops |->
                             IF o \in FreeSlots(fileWatchers)
                               THEN [rec EXCEPT !.pc = "create"] ELSE ops[o]]
                /\ UNCHANGED projects
           ELSE /\ projects' = IF project # Null
                                 THEN projects \o [w \in 1 .. fileWatchers |-> project]
                                 ELSE projects
                /\ ops' = [o \in DOMAIN ops |->
                             IF o \in FreeSlots(fileWatchers)
                               THEN [rec EXCEPT !.pc = "returned", !.read = Null]
                               ELSE ops[o]]
      /\ UNCHANGED <<cacheVars, apiVars, rd, autoRunPubGet, fileWatchers>>

\* The lookups of an onDidCreate handler are answered: the project is pushed.
CreateDone(o, latest) ==
  /\ ops[o].pc = "create"
  /\ projects' = Append(projects, CreateProjectFromPath(ops[o].read, latest))
  /\ ops' = [ops EXCEPT ![o].pc = "returned", ![o].read = Null]
  /\ UNCHANGED <<cacheVars, apiVars, rd, file, autoRunPubGet, fileWatchers>>

\* Mutant of FileDeleted: the first project of the path is taken out of the list.
FileDeletedFirstOnly ==
  /\ file.kind # "missing"
  /\ file' = MissingFile
  /\ projects' = IF fileWatchers > 0
                   THEN SelectSeq(projects, LAMBDA p : p.path # ProjectPath)
                          \o SubSeq(projects, 2, Len(projects))
                   ELSE projects
  /\ UNCHANGED <<cacheVars, apiVars, rd, ops, autoRunPubGet, fileWatchers>>

\* The file is deleted and the onDidDelete handlers run.
FileDeleted ==
  /\ file.kind # "missing"
  /\ file' = MissingFile
  /\ projects' = IF fileWatchers > 0
                   THEN SelectSeq(projects, LAMBDA p : p.path # ProjectPath)
                   ELSE projects
  /\ UNCHANGED <<cacheVars, apiVars, rd, ops, autoRunPubGet, fileWatchers>>

\* initialize(), called when the workspace folders change: the list is emptied
\* and the folder scanned; without a wait, setupFileWatchers follows at once.
Initialize(o) ==
  LET project == IF file.kind = "missing" THEN Null ELSE CreateProjectFromPath(file, Null)
      waits == project # Null /\ ExtractDependencies(file, Null).lookups # <<>>
      rec == [NewOp("initialize", "", "", FALSE) EXCEPT !.read = file]
  IN  /\ fileWatchers < MaxWatchers
      /\ o \in FreeSlots(1)
      /\ IF waits
           THEN /\ projects' = <<>>
                /\ ops' = [ops EXCEPT ![o] = [rec EXCEPT !.pc = "scan"]]
                /\ UNCHANGED fileWatchers
           ELSE /\ projects' = IF project # Null THEN <<project>> ELSE <<>>
                /\ ops' = [ops EXCEPT ![o] = [rec EXCEPT !.pc = "returned", !.read = Null]]
                /\ fileWatchers' = fileWatchers + 1
      /\ UNCHANGED <<cacheVars, apiVars, rd, file, autoRunPubGet>>

\* The lookups of the scan are answered: the project is pushed and
\* setupFileWatchers adds a watcher.
InitializeScanned(o, latest) ==
  /\ ops[o].pc = "scan"
  /\ projects' = Append(projects, CreateProjectFromPath(ops[o].read, latest))
  /\ ops' = [ops EXCEPT ![o].pc = "returned", ![o].read = Null]
  /\ fileWatchers' = fileWatchers + 1
  /\ UNCHANGED <<cacheVars, apiVars, rd, file, autoRunPubGet>>

\* The manifests that are written to the file: pkg_a at ^1.0.0, pkg_a at ^1.2.0,
\* no dependency.
WsFiles ==
  {Pubspec("app", Section("pkg_a" :> Str(v)), NoSection) : v \in {"^1.0.0", "^1.2.0"}}
    \cup {Pubspec("app", NoSection, NoSection)}

\* The extension is active: initialize has scanned the workspace, whose project
\* has its manifest or not, and has set up one watcher.  Two handlers or
\* commands can be in progress at a time.
WorkspaceInit ==
  /\ SvcIdle
  /\ ApiIdle
  /\ rd = NoEntry
  /\ file \in WsFiles \cup {MissingFile}
  /\ \E latest \in {Str("1.2.0")} :
       projects = IF file.kind = "missing" \/ CreateProjectFromPath(file, latest) = Null
                    THEN <<>>
                    ELSE <<CreateProjectFromPath(file, latest)>>
  /\ ops = [o \in {1, 2} |-> IdleOp]
  /\ autoRunPubGet \in BOOLEAN
  /\ fileWatchers = 1

WorkspaceNext ==
  \/ \E newFile \in WsFiles : FileChanged(newFile)
  \/ \E o \in {1, 2}, latest \in {Str("1.2.0")} : ChangeRefreshed(o, latest)
  \/ \E o \in {1, 2} : ChangePubGetDone(o)
  \/ \E newFile \in WsFiles : FileCreated(newFile)
  \/ \E o \in {1, 2}, latest \in {Str("1.2.0")} : CreateDone(o, latest)
  \/ FileDeleted
  \/ \E o \in {1, 2} : Initialize(o)
  \/ \E o \in {1, 2}, latest \in {Str("1.2.0")} : InitializeScanned(o, latest)
  \/ \E o \in {1, 2} : o \in FreeSlots(1) /\ AddDependency(o, "pkg_a", "1.2.0", FALSE, FALSE)
  \/ \E o \in {1, 2} : o \in FreeSlots(1) /\ RemoveDependency(o, "pkg_a", FALSE, FALSE)
  \/ \E o \in {1, 2} : PubGetDone(o)
  \/ \E o \in {1, 2}, latest \in {Str("1.2.0")} : RefreshDone(o, latest)

SpecWorkspace == WorkspaceInit /\ [][WorkspaceNext]_vars

(***************************************************************************)
(* Properties of the project list, checked under SpecWorkspace.            *)
(***************************************************************************)
\* The slots of the list that hold a project of the path.
Tracked(ps) == {i \in 1 .. Len(ps) : ps[i].path = ProjectPath}
\* The list of name, version and section that a project's dependency list has.
Declared(dependencies) ==
  [i \in 1 .. Len(dependencies) |->
     <<dependencies[i].name, dependencies[i].version, dependencies[i].isDev>>]
NoneInProgress == \A o \in DOMAIN ops : ops[o].pc \in {"idle", "returned"}

C23_FetchFollowsSetting ==
  \A o \in DOMAIN ops :
    (/\ ops[o].pc = "returned"
     /\ \/ ops[o].kind = "change"
        \/ ops[o].kind \in {"add", "update", "remove"} /\ ops[o].ret = Bool(TRUE))
      => (Position(ops[o].fx, "runPubGet") > 0 <=> autoRunPubGet)

\* C28: once the onDidChange handlers and the addDependency and removeDependency
\* calls are over, a tracked project of a file that is a manifest has the
\* dependency list of that file: every slot of the path declares the names,
\* versions and sections that the file does.
C28_ProjectMatchesFinalFile ==
  (/\ NoneInProgress
   /\ \A o \in DOMAIN ops : ops[o].kind \in {"none", "change", "add", "update", "remove"}
   /\ file.kind = "map")
    => \A i \in Tracked(projects) :
         Declared(projects[i].dependencies)
           = Declared(ExtractDependencies(file, Null).dependencies)

\* C29: the project list holds one project of a path at most.
C29_OneProjectPerPath == Cardinality(Tracked(projects)) <= 1

====
